---- MODULE Spec2Model ----
(***************************************************************************)
(* A model of the decision core of the trading engine: the risk and        *)
(* position engine (core/risk_manager.hpp), the order tracker              *)
(* (core/order_tracker.hpp), the circuit breaker and kill switch           *)
(* (core/circuit_breaker.hpp) and the coordinator's risk gating            *)
(* (strategies/strategy_coordinator.hpp).                                  *)
(*                                                                         *)
(* Numbers.  The source computes in double.  The model computes exactly:   *)
(* quantities, prices, fees and notionals are integers, and every value    *)
(* the source obtains by a division (the average entry price and what is   *)
(* derived from it) is an exact rational [n, d] in lowest terms.           *)
(*   - a quantity is counted in units of 5e-8, so that the source's flat   *)
(*     threshold 0.0000001 is EPS = 2 units and a quantity of 1 unit is    *)
(*     below it;                                                           *)
(*   - money is counted in units of 500 (dollars), which is the scale at   *)
(*     which the default RiskLimits and the coordinator's hard-coded       *)
(*     notionals are whole numbers.                                        *)
(***************************************************************************)
EXTENDS Integers, Sequences, FiniteSets, TLC

(***************************************************************************)
(* Exact rational arithmetic (the model's double).                         *)
(***************************************************************************)
Abs(x) == IF x < 0 THEN -x ELSE x

Min(a, b) == IF a < b THEN a ELSE b

Max(a, b) == IF a > b THEN a ELSE b

RECURSIVE Gcd(_, _)
Gcd(a, b) == IF b = 0 THEN a ELSE Gcd(b, a % b)

\* n / d in lowest terms with a positive denominator (d # 0).
Rat(n, d) ==
    LET g == Gcd(Abs(n), Abs(d))
        s == IF d < 0 THEN -1 ELSE 1
    IN  [n |-> s * (n \div g), d |-> s * (d \div g)]

RInt(i) == [n |-> i, d |-> 1]

RAdd(a, b) == Rat(a.n * b.d + b.n * a.d, a.d * b.d)

RSub(a, b) == Rat(a.n * b.d - b.n * a.d, a.d * b.d)

RMul(a, b) == Rat(a.n * b.n, a.d * b.d)

RDiv(a, b) == Rat(a.n * b.d, a.d * b.n)

RLt(a, b) == a.n * b.d < b.n * a.d

RLe(a, b) == a.n * b.d <= b.n * a.d

RMax(a, b) == IF RLt(a, b) THEN b ELSE a

RMin(a, b) == IF RLt(b, a) THEN b ELSE a

RAbs(a) == [n |-> Abs(a.n), d |-> a.d]

RZero == RInt(0)

(***************************************************************************)
(* Bounds of the model and the input sets.                                 *)
(***************************************************************************)
\* on_fill calls in one behaviour
MaxFills == 2

\* on_fill calls in one behaviour of the small-fill specification
MaxSmallFills == 4

Symbols == {"BTCUSDT", "ETHUSDT"}

Sides == {"BUY", "SELL"}

\* fill quantities: below the flat threshold, small, and larger than the
\* per-symbol cap allows at either price
FillQtys == {1, 6, 160}

Prices == {1, 2}

FillFees == {1}

Fills == [symbol : Symbols, side : Sides, quantity : FillQtys,
          price : Prices, fee : FillFees]

\* fills of a small quantity or of less than the flat threshold
SmallFills == [symbol : Symbols, side : Sides, quantity : {1, 6},
               price : {1}, fee : FillFees]

\* fills in the specification of the malformed fills
MaxInvalidFills == 2

\* fills no exchange reports: a negative quantity, a negative price
InvalidFills ==
    [symbol : Symbols, side : Sides, quantity : {-1}, price : {1},
     fee : FillFees]
        \cup [symbol : Symbols, side : Sides, quantity : {6}, price : {-1},
              fee : FillFees]

\* on_fill calls in one behaviour of the pre-trade check specification
MaxCheckFills == 2

\* fills larger than the per-symbol cap allows
LargeFills == [symbol : Symbols, side : Sides, quantity : {160}, price : {1},
               fee : FillFees]

\* on_fill calls in one behaviour of the coordinator and gate specifications
MaxCoordFills == 1

CoordFills == [symbol : Symbols, side : Sides, quantity : {30}, price : {1},
               fee : FillFees]

\* process_market_update calls in one behaviour
MaxUpdates == 1

\* process_market_update calls in the specification of the two-leg branches
MaxLegUpdates == 1

\* process_market_update calls when the updates carry arbitrage candidates
\* alone
MaxArbUpdates == 4

\* the price maps update_market_prices is called with: any symbol may be absent
PriceMaps == UNION {[S -> Prices] : S \in SUBSET Symbols}

\* the orders check_order is called with directly
OrderQtys == {6, 30}

CheckOrders == [symbol : Symbols, side : Sides, quantity : OrderQtys,
                price : {1}]

(***************************************************************************)
(* Position (risk_manager.hpp).  The two timestamps and var_contribution   *)
(* are written but never read by any operation and are left out.           *)
(***************************************************************************)
\* 0.0000001 in quantity units of 5e-8
EPS == 2

\* Position::Position()
NewPosition ==
    [quantity |-> 0, avg_price |-> RZero, realized_pnl |-> RZero,
     unrealized_pnl |-> RZero, total_fees_paid |-> 0, notional_value |-> 0]

is_flat(pos) == Abs(pos.quantity) < EPS

is_long(pos) == pos.quantity > EPS

is_short(pos) == pos.quantity < -EPS

calculate_unrealized(pos, current_price) ==
    IF is_flat(pos) THEN RZero
    ELSE RMul(RInt(pos.quantity), RSub(RInt(current_price), pos.avg_price))

update_unrealized(pos, current_price) ==
    [pos EXCEPT !.unrealized_pnl = calculate_unrealized(pos, current_price),
                !.notional_value = Abs(pos.quantity * current_price)]

(***************************************************************************)
(* RiskLimits: the defaults of RiskLimits::RiskLimits(), in money units    *)
(* of 500; the two fractions are exact rationals.                          *)
(***************************************************************************)
limits_ ==
    [max_position_per_symbol  |-> 100,        \* 50000
     max_total_gross_exposure |-> 300,        \* 150000
     max_daily_loss           |-> 10,         \* 5000
     trailing_stop_pct        |-> Rat(1, 2),  \* 0.5
     max_order_size           |-> 20,         \* 10000
     max_single_symbol_pct    |-> Rat(2, 5)]  \* 0.4

\* recent_fills_ keeps at most this many fills
RECENT_FILLS_CAP == 1000

VARIABLES
    \* RiskManager
    positions_,          \* symbol -> Position, for the symbols in the map
    daily_realized_pnl_, \* rational
    peak_daily_pnl_,     \* rational
    recent_fills_,       \* the length of the vector: its content is never read
    \* history of the fills applied, for the reconciliation claims
    fill_sum,            \* symbol -> sum of the signed fill quantities
    nfills,              \* on_fill calls so far
    \* LatencyArbitrageStrategy
    active_arbs_,
    nupdates,            \* history: process_market_update calls so far
    \* KillSwitch
    activated_,
    activation_reason_,
    shutdown_handlers_,  \* the registered handlers, in registration order
    handler_calls,       \* history: the handlers invoked, in order
    \* CircuitBreaker
    state_,
    failure_count_,
    success_count_,
    last_failure_time_,
    half_open_start_,
    now,                 \* Clock::now()
    \* history of the breaker, for the claims about its cycle
    test_entered,        \* when the current or last half-open test began
    test_successes,      \* record_success calls made during that test
    cycle,               \* how far the canonical cycle has been followed
    \* OrderTracker
    orders_,                \* client_order_id -> Order
    order_id_to_client_id_, \* exchange id -> client id
    symbol_orders_,         \* symbol -> sequence of client ids
    active_orders_,         \* set of client ids
    ntracks,                \* history: track_order calls so far
    norder_updates,         \* history: update_order calls so far
    \* KillSwitch::activate step by step, one call per thread
    activations_,           \* thread -> where its activate call stands
    handlers_mutex_,        \* the thread holding handlers_mutex_, or "free"
    registered_first_,      \* history: the handlers registered when the
                            \* first activation set the latch
    \* AdverseSelectionFilter
    fill_history_,          \* the fills recorded, oldest first
    \* RiskManager::on_fill and check_order step by step, on two threads
    mutex_,                 \* the shared_mutex: its writer and its readers
    fill_thread,            \* where the on_fill call stands
    check_thread,           \* where the check_order call stands, and what
                            \* it has read
    committed,              \* history: positions and daily realized P&L
                            \* at construction and after each whole fill
    \* CircularBuffer
    data_,                  \* index -> element, or "raw" where none was
                            \* ever written
    size_,
    head_,                  \* next write position
    tail_,                  \* oldest element position
    fifo,                   \* history: the bounded queue the ring is
                            \* compared with, oldest first
    \* LatencyArbOptimized
    opportunities_last_minute_,
    last_opportunity_time_, \* in ticks of arb_clock
    arb_clock,              \* Clock::now() of the latency arbitrage, in ticks
    detections_,            \* thread -> whether it holds a valid opportunity
                            \* it has not executed yet
    ndetections,            \* detect_global_best_opportunity calls so far
    \* AdverseSelectionFilter: the toxicity cache
    needs_recalc_,
    cached_toxicity_score_,
    cached_spread_mult_,
    last_toxic_fill_time_,  \* 0 for TimePoint{}
    filter_now,             \* Clock::now() of the filter, in ticks
    calc_pc,                \* where the calculate_toxicity call stands
    computed_from_,         \* history: the fills and the last toxic fill
                            \* time the cache was computed from
    previous_score_,        \* history: the score the last call returned
    dirty_,                 \* history: a fill was recorded or an outcome
                            \* finalized since the last call returned
    \* PairsTradingStrategy
    lookback_period_,       \* config_.lookback_period, 0 before the pair is
                            \* constructed
    ratio_history_,         \* the ratios in the ring, oldest first
    stats_calculator_,      \* the RunningStats: count_, mean_, m2_
    mean_ratio_,
    std_ratio_,
    npair_updates,          \* update_prices calls so far
    \* SymbolRegistry; the k-th distinct string ever registered is k
    symbol_to_id_,          \* string -> id, as a sequence
    id_to_symbol_,          \* id -> string
    next_id_,               \* a SymbolId
    nregistrations,         \* register_symbol calls so far
    \* ErrorRateTracker
    error_times_,           \* std::vector<Timestamp>
    error_now,              \* Clock::now(), in ticks
    recorded,               \* the times of all record_error calls so far
    \* CircuitBreaker, step by step
    breaker_calls,          \* each thread's call in progress and its locals
    nbreaker_calls,         \* calls begun so far
    opened_at,              \* when state_ last changed to OPEN
    open_epoch,             \* how many times state_ changed to OPEN
    \* OrderTracker, its lock step by step
    tracker_mutex_,         \* the shared_mutex: writer, readers, a writer waiting
    reader_thread,          \* the lookup in progress
    writer_thread,          \* the track_order in progress
    \* PairsTradingStrategy's prices kept for the correlation
    price1_history_,
    price2_history_,
    \* ObjectPool
    blocks_,                \* the blocks, by number
    all_objects_,           \* every object of every block
    free_list_,             \* the objects available
    handed_out,             \* what each thread holds
    npool_calls,            \* allocate and deallocate calls so far
    \* the last call and what it returned
    last

riskVars == <<positions_, daily_realized_pnl_, peak_daily_pnl_, recent_fills_>>

fillVars == <<fill_sum, nfills>>

arbVars == <<active_arbs_, nupdates>>

killVars == <<activated_, activation_reason_, shutdown_handlers_,
              handler_calls>>

breakerVars == <<state_, failure_count_, success_count_, last_failure_time_,
                 half_open_start_>>

breakerHistory == <<test_entered, test_successes, cycle>>

trackerVars == <<orders_, order_id_to_client_id_, symbol_orders_,
                 active_orders_, ntracks, norder_updates>>

\* the state of the parts modelled step by step, each declared with its part
activationVars == <<activations_, handlers_mutex_, registered_first_>>

lockVars == <<mutex_, fill_thread, check_thread, committed>>

ringVars == <<data_, size_, head_, tail_, fifo>>

globalArbVars == <<opportunities_last_minute_, last_opportunity_time_,
                   arb_clock, detections_, ndetections>>

pairVars == <<lookback_period_, ratio_history_, stats_calculator_,
              mean_ratio_, std_ratio_, npair_updates>>

registryVars == <<symbol_to_id_, id_to_symbol_, next_id_, nregistrations>>

strategyVars == <<globalArbVars, pairVars, registryVars>>

errorVars == <<error_times_, error_now, recorded>>

breakerStepVars == <<breaker_calls, nbreaker_calls, opened_at, open_epoch>>

\* the parts of the last sections
trackerLockVars == <<tracker_mutex_, reader_thread, writer_thread>>

poolVars == <<blocks_, all_objects_, free_list_, handed_out, npool_calls>>

historyVars == <<price1_history_, price2_history_>>

lateVars == <<errorVars, breakerStepVars, trackerLockVars, poolVars,
              historyVars>>

\* what record_fill leaves alone
filterKept == <<cached_toxicity_score_, cached_spread_mult_,
                last_toxic_fill_time_, filter_now, calc_pc, computed_from_,
                previous_score_>>

filterVars == <<fill_history_, needs_recalc_, dirty_, filterKept>>

moreVars == <<activationVars, filterVars, lockVars, ringVars, strategyVars,
              lateVars>>

\* everything the strategies of the later sections leave alone
engineVars == <<riskVars, fillVars, killVars, breakerVars, now,
                breakerHistory, trackerVars, activationVars, lockVars,
                ringVars, lateVars>>

\* everything but the kill switch
notKill == <<riskVars, fillVars, arbVars, breakerVars, now, breakerHistory,
             trackerVars, filterVars, lockVars, ringVars, strategyVars,
             lateVars>>

\* everything but the risk engine
notRisk == <<arbVars, killVars, breakerVars, now, breakerHistory,
             trackerVars, activationVars, filterVars, ringVars,
             strategyVars, lateVars>>

\* everything but the circular buffer
notRing == <<riskVars, fillVars, arbVars, killVars, breakerVars, now,
             breakerHistory, trackerVars, activationVars, filterVars,
             lockVars, strategyVars, lateVars>>

vars == <<riskVars, fillVars, arbVars, killVars, breakerVars, now,
          breakerHistory, trackerVars, moreVars, last>>

NoCall == [op |-> "none"]

(***************************************************************************)
(* RiskManager                                                             *)
(***************************************************************************)
\* the sum of f over the keys of a map
RECURSIVE RSumOver(_, _)
RSumOver(S, m) ==
    IF S = {} THEN RZero
    ELSE LET k == CHOOSE x \in S : TRUE
         IN  RAdd(m[k], RSumOver(S \ {k}, m))

RECURSIVE SumOver(_, _)
SumOver(S, m) ==
    IF S = {} THEN 0
    ELSE LET k == CHOOSE x \in S : TRUE
         IN  m[k] + SumOver(S \ {k}, m)

\* the total P&L without the unrealized part
get_total_pnl_realized_only(positions, realized) == realized

\* get_total_pnl_internal(double): realized plus the stored unrealized P&L
get_total_pnl_internal(positions, realized) ==
    RAdd(realized,
         RSumOver(DOMAIN positions,
                  [s \in DOMAIN positions |-> positions[s].unrealized_pnl]))

\* calculate_total_gross_exposure: the sum of the stored notional values
calculate_total_gross_exposure(positions) ==
    SumOver(DOMAIN positions,
            [s \in DOMAIN positions |-> positions[s].notional_value])

Passed == [passed |-> TRUE, reason |-> ""]

Rejected(r) == [passed |-> FALSE, reason |-> r]

\* RiskManager::check_order
check_order(positions, realized, peak, order, current_price) ==
    LET current_pnl == get_total_pnl_internal(positions, realized)
        drawdown_from_peak == RSub(peak, current_pnl)
        max_drawdown ==
            RMul(RInt(limits_.max_daily_loss), limits_.trailing_stop_pct)
        order_notional == order.quantity * order.price
        found == order.symbol \in DOMAIN positions
        current_notional ==
            IF found THEN Abs(positions[order.symbol].quantity * current_price)
            ELSE 0
        old_quantity == IF found THEN positions[order.symbol].quantity ELSE 0
        new_quantity ==
            IF order.side = "BUY" THEN old_quantity + order.quantity
            ELSE old_quantity - order.quantity
        new_notional == Abs(new_quantity * current_price)
        total_gross == calculate_total_gross_exposure(positions)
        reducing ==
            /\ found
            /\ \/ is_long(positions[order.symbol]) /\ order.side = "SELL"
               \/ is_short(positions[order.symbol]) /\ order.side = "BUY"
        order_impact ==
            IF reducing THEN Max(0, new_notional - current_notional)
            ELSE order_notional
        portfolio_value == total_gross + order_impact
    IN  IF RLt(current_pnl, RInt(-limits_.max_daily_loss))
          THEN Rejected("Daily loss limit exceeded")
        ELSE IF RLt(max_drawdown, drawdown_from_peak)
          THEN Rejected("Trailing stop hit")
        ELSE IF order_notional > limits_.max_order_size
          THEN Rejected("Order size exceeds limit")
        ELSE IF new_notional > limits_.max_position_per_symbol
          THEN Rejected("Symbol position limit exceeded")
        ELSE IF total_gross + order_impact > limits_.max_total_gross_exposure
          THEN Rejected("Total gross exposure limit exceeded")
        ELSE IF /\ portfolio_value > 0
                /\ RLt(limits_.max_single_symbol_pct,
                       Rat(new_notional, portfolio_value))
          THEN Rejected("Concentration limit exceeded")
        ELSE Passed

signed_quantity(fill) ==
    IF fill.side = "BUY" THEN fill.quantity ELSE -fill.quantity

\* on_fill's second branch: the fill is on the side of the open position
is_adding(pos, fill) ==
    \/ is_long(pos) /\ fill.side = "BUY"
    \/ is_short(pos) /\ fill.side = "SELL"

\* on_fill's third branch (closing or reducing): pnl - fill.fee
closing_pnl(pos, fill) ==
    LET closed_quantity ==
            Min(Abs(signed_quantity(fill)), Abs(pos.quantity))
        pnl == RMul(RMul(RInt(closed_quantity),
                         RSub(RInt(fill.price), pos.avg_price)),
                    RInt(IF is_long(pos) THEN 1 ELSE -1))
    IN  RSub(pnl, RInt(fill.fee))

\* the position on_fill leaves for fill.symbol (pos is positions_[fill.symbol],
\* default-constructed by operator[] when absent)
fill_position(pos, fill) ==
    IF is_flat(pos) THEN
        \* Opening new position
        [pos EXCEPT !.quantity = signed_quantity(fill),
                    !.avg_price = RInt(fill.price),
                    !.total_fees_paid = fill.fee]
    ELSE IF is_adding(pos, fill) THEN
        \* Adding to position
        LET total_cost ==
                RAdd(RMul(RInt(pos.quantity), pos.avg_price),
                     RInt(signed_quantity(fill) * fill.price))
            quantity == pos.quantity + signed_quantity(fill)
        IN  [pos EXCEPT !.quantity = quantity,
                        !.avg_price = RDiv(total_cost, RInt(quantity)),
                        !.total_fees_paid = pos.total_fees_paid + fill.fee]
    ELSE
        \* Closing or reducing position
        [pos EXCEPT !.realized_pnl =
                        RAdd(pos.realized_pnl, closing_pnl(pos, fill)),
                    !.quantity = pos.quantity + signed_quantity(fill),
                    !.total_fees_paid = pos.total_fees_paid + fill.fee]

\* positions_[symbol]: the entry, default-constructed when absent
position_of(positions, symbol) ==
    IF symbol \in DOMAIN positions THEN positions[symbol] ELSE NewPosition

\* a map with one entry set (inserted when absent)
Put(m, k, v) == [x \in DOMAIN m \cup {k} |-> IF x = k THEN v ELSE m[x]]

\* RiskManager::on_fill
on_fill(fill) ==
    LET pos == position_of(positions_, fill.symbol)
        closing == ~is_flat(pos) /\ ~is_adding(pos, fill)
    IN  /\ positions_' = Put(positions_, fill.symbol, fill_position(pos, fill))
        /\ daily_realized_pnl_' =
               IF closing
               THEN RAdd(daily_realized_pnl_, closing_pnl(pos, fill))
               ELSE daily_realized_pnl_
        /\ recent_fills_' = Min(recent_fills_ + 1, RECENT_FILLS_CAP)
        /\ UNCHANGED peak_daily_pnl_

\* RiskManager::update_market_prices
update_market_prices(prices) ==
    LET marked ==
            [s \in DOMAIN positions_ |->
                IF s \in DOMAIN prices
                THEN update_unrealized(positions_[s], prices[s])
                ELSE positions_[s]]
        seen == DOMAIN positions_ \cap DOMAIN prices
        total_unrealized ==
            RSumOver(seen, [s \in seen |-> marked[s].unrealized_pnl])
        total_pnl == RAdd(daily_realized_pnl_, total_unrealized)
    IN  /\ positions_' = marked
        /\ peak_daily_pnl_' =
               IF RLt(peak_daily_pnl_, total_pnl) THEN total_pnl
               ELSE peak_daily_pnl_
        /\ UNCHANGED <<daily_realized_pnl_, recent_fills_>>

\* RiskManager::reset_daily
reset_daily ==
    /\ daily_realized_pnl_' = RZero
    /\ peak_daily_pnl_' = RZero
    /\ positions_' =
           [s \in DOMAIN positions_ |->
               [positions_[s] EXCEPT !.realized_pnl = RZero,
                                     !.unrealized_pnl = RZero]]
    /\ recent_fills_' = 0

(***************************************************************************)
(* The risk engine under fills, marks, daily resets and pre-trade checks.  *)
(***************************************************************************)
EmptyMap == [s \in {} |-> 0]

InitRisk ==
    /\ positions_ = EmptyMap
    /\ daily_realized_pnl_ = RZero
    /\ peak_daily_pnl_ = RZero
    /\ recent_fills_ = 0
    /\ fill_sum = [s \in Symbols |-> 0]
    /\ nfills = 0

OnFill(bound, fills) ==
    \E fill \in fills :
        /\ nfills < bound
        /\ on_fill(fill)
        /\ fill_sum' =
               [fill_sum EXCEPT ![fill.symbol] = @ + signed_quantity(fill)]
        /\ nfills' = nfills + 1
        /\ last' = [op |-> "on_fill", fill |-> fill]
        /\ UNCHANGED <<moreVars, arbVars, killVars, breakerVars, now,
                       breakerHistory, trackerVars>>

UpdateMarketPrices ==
    \E prices \in PriceMaps :
        /\ update_market_prices(prices)
        /\ last' = [op |-> "update_market_prices"]
        /\ UNCHANGED <<moreVars, fillVars, arbVars, killVars, breakerVars, now,
                       breakerHistory, trackerVars>>

ResetDaily ==
    /\ reset_daily
    /\ last' = [op |-> "reset_daily"]
    /\ UNCHANGED <<moreVars, fillVars, arbVars, killVars, breakerVars, now,
                   breakerHistory, trackerVars>>

CheckOrder ==
    \E order \in CheckOrders, current_price \in Prices :
        /\ last' = [op |-> "check_order", order |-> order,
                    current_price |-> current_price,
                    result |-> check_order(positions_, daily_realized_pnl_,
                                           peak_daily_pnl_, order,
                                           current_price)]
        /\ UNCHANGED <<moreVars, riskVars, fillVars, arbVars, killVars,
                       breakerVars, now, breakerHistory, trackerVars>>


(***************************************************************************)
(* StrategyCoordinator::process_market_update.  What the five analyzers    *)
(* conclude from the books and their price histories is an input of the    *)
(* handler: each signal is either absent or valid.  Order sizes are the    *)
(* notionals of calculate_position_size and of the strategies' configs in  *)
(* money units of 500, divided by the price.                               *)
(***************************************************************************)
\* Order::Order(): the fields check_order reads, and the strategy name
DefaultOrder ==
    [symbol |-> "", side |-> "BUY", quantity |-> 0, price |-> 0,
     strategy_name |-> ""]

MakeOrder(symbol, side, quantity, price, strategy_name) ==
    [symbol |-> symbol, side |-> side, quantity |-> quantity,
     price |-> price, strategy_name |-> strategy_name]

\* StrategyCoordinator::calculate_position_size
calculate_position_size(price, strategy) ==
    LET base_notional ==
            IF strategy = "OBI" THEN 6          \* 3000
            ELSE IF strategy = "VOL_ARB" THEN 8 \* 4000
            ELSE 10                             \* 5000
    IN  base_notional \div price

\* LatencyArbitrageStrategy::Config and PairsTradingStrategy::Config
latency_arb_config ==
    [position_size_usd |-> 10, max_concurrent_arbs |-> 3]

pairs_config == [position_size_usd |-> 10]

\* the pairs the constructor registers: name -> <<symbol1, symbol2>>
pairs_strategies_ ==
    [p \in {"ETH_BTC", "SOL_BTC"} |->
        IF p = "ETH_BTC" THEN <<"ETHUSDT", "BTCUSDT">>
        ELSE <<"SOLUSDT", "BTCUSDT">>]

\* the symbols with a volatility strategy
vol_arb_strategies_ == {"BTCUSDT", "ETHUSDT"}

\* inputs of process_market_update
ObiSignals == {"NONE", "BUY", "SELL"}

VolSignals == {"NONE", "SELL"}

\* the best opportunity found in the venues' books, if any
ArbBooks ==
    {[is_valid |-> FALSE],
     [is_valid |-> TRUE, buy_price |-> 1, sell_price |-> 2]}

\* which pairs produce a valid signal
PairSignals == [DOMAIN pairs_strategies_ -> {"NONE", "LONG_SPREAD"}]

CurrentPrices ==
    {EmptyMap,
     [s \in {"BTCUSDT", "ETHUSDT", "SOLUSDT"} |->
         IF s = "ETHUSDT" THEN 2 ELSE 1]}

\* one check_order call made by the coordinator
Checked(order, current_price) ==
    [order |-> order, current_price |-> current_price,
     result |-> check_order(positions_, daily_realized_pnl_, peak_daily_pnl_,
                            order, current_price)]

\* 1. the order book imbalance branch
obi_branch(symbol, current_price, obi) ==
    IF obi = "NONE" THEN [checks |-> <<>>, orders |-> <<>>]
    ELSE LET risk_check == Checked(DefaultOrder, current_price)
             order == MakeOrder(symbol, obi,
                                calculate_position_size(current_price, "OBI"),
                                current_price, "OBI")
         IN  [checks |-> <<risk_check>>,
              orders |-> IF risk_check.result.passed THEN <<order>>
                         ELSE <<>>]

\* LatencyArbitrageStrategy::detect_opportunity
detect_opportunity(books) ==
    IF active_arbs_ >= latency_arb_config.max_concurrent_arbs
    THEN [is_valid |-> FALSE]
    ELSE books

\* 2. the latency arbitrage branch, create_arb_orders included
arb_branch(symbol, books) ==
    LET arb_opp == detect_opportunity(books)
    IN  IF ~arb_opp.is_valid
        THEN [checks |-> <<>>, orders |-> <<>>, created |-> 0]
        ELSE LET execute_quantity ==
                     latency_arb_config.position_size_usd
                         \div arb_opp.buy_price
                 buy_order == MakeOrder(symbol, "BUY", execute_quantity,
                                        arb_opp.buy_price, "LATENCY_ARB")
                 sell_order == MakeOrder(symbol, "SELL", execute_quantity,
                                         arb_opp.sell_price, "LATENCY_ARB")
                 buy_check == Checked(buy_order, arb_opp.buy_price)
                 sell_check == Checked(sell_order, arb_opp.sell_price)
             IN  [checks |-> <<buy_check, sell_check>>,
                  orders |-> IF /\ buy_check.result.passed
                                /\ sell_check.result.passed
                             THEN <<buy_order, sell_order>>
                             ELSE <<>>,
                  created |-> 1]

\* the pairs loop with each leg returned on its own check
pair_branch_each_leg(pair_name, current_prices, signal) ==
    LET symbol1 == pairs_strategies_[pair_name][1]
        symbol2 == pairs_strategies_[pair_name][2]
    IN  IF \/ symbol1 \notin DOMAIN current_prices
           \/ symbol2 \notin DOMAIN current_prices
           \/ signal = "NONE"
        THEN [checks |-> <<>>, orders |-> <<>>]
        ELSE LET price1 == current_prices[symbol1]
                 price2 == current_prices[symbol2]
                 order1 == MakeOrder(symbol1, "BUY",
                               pairs_config.position_size_usd \div price1,
                               price1, "PAIRS_TRADING")
                 order2 == MakeOrder(symbol2, "SELL",
                               pairs_config.position_size_usd \div price2,
                               price2, "PAIRS_TRADING")
                 check1 == Checked(order1, price1)
                 check2 == Checked(order2, price2)
             IN  [checks |-> <<check1, check2>>,
                  orders |->
                      (IF check1.result.passed THEN <<order1>> ELSE <<>>)
                          \o (IF check2.result.passed THEN <<order2>>
                              ELSE <<>>)]

\* 3. one iteration of the pairs loop
pair_branch(pair_name, current_prices, signal) ==
    LET symbol1 == pairs_strategies_[pair_name][1]
        symbol2 == pairs_strategies_[pair_name][2]
    IN  IF \/ symbol1 \notin DOMAIN current_prices
           \/ symbol2 \notin DOMAIN current_prices
           \/ signal = "NONE"
        THEN [checks |-> <<>>, orders |-> <<>>]
        ELSE LET price1 == current_prices[symbol1]
                 price2 == current_prices[symbol2]
                 order1 == MakeOrder(symbol1, "BUY",
                               pairs_config.position_size_usd \div price1,
                               price1, "PAIRS_TRADING")
                 order2 == MakeOrder(symbol2, "SELL",
                               pairs_config.position_size_usd \div price2,
                               price2, "PAIRS_TRADING")
                 check1 == Checked(order1, price1)
                 check2 == Checked(order2, price2)
             IN  [checks |-> <<check1, check2>>,
                  orders |-> IF check1.result.passed /\ check2.result.passed
                             THEN <<order1, order2>>
                             ELSE <<>>]

\* 4. the volatility arbitrage branch
vol_branch(symbol, current_price, vol) ==
    IF symbol \notin vol_arb_strategies_ \/ vol = "NONE"
    THEN [checks |-> <<>>, orders |-> <<>>]
    ELSE LET order == MakeOrder(symbol, vol,
                          calculate_position_size(current_price, "VOL_ARB"),
                          current_price, "VOL_ARB")
             risk_check == Checked(order, current_price)
         IN  [checks |-> <<risk_check>>,
              orders |-> IF risk_check.result.passed THEN <<order>>
                         ELSE <<>>]

\* 5. the adverse selection filter: market making orders are dropped
RECURSIVE remove_mm(_)
remove_mm(orders) ==
    IF orders = <<>> THEN <<>>
    ELSE IF Head(orders).strategy_name = "MM" THEN remove_mm(Tail(orders))
    ELSE <<Head(orders)>> \o remove_mm(Tail(orders))

\* the handler on the update u; the pairs map is unordered and u.first is
\* the pair its loop visits first
process_market_update(u) ==
    LET second == CHOOSE p \in DOMAIN pairs_strategies_ : p # u.first
        b1 == obi_branch(u.symbol, u.current_price, u.obi)
        b2 == arb_branch(u.symbol, u.books)
        b3a == pair_branch(u.first, u.current_prices, u.pairs[u.first])
        b3b == pair_branch(second, u.current_prices, u.pairs[second])
        b4 == vol_branch(u.symbol, u.current_price, u.vol)
        orders == b1.orders \o b2.orders \o b3a.orders \o b3b.orders
                      \o b4.orders
    IN  /\ active_arbs_' = active_arbs_ + b2.created
        /\ nupdates' = nupdates + 1
        /\ last' = [op |-> "process_market_update",
                    current_price |-> u.current_price,
                    books |-> u.books,
                    arbs_before |-> active_arbs_,
                    arbs_created |-> b2.created,
                    checks |-> b1.checks \o b2.checks \o b3a.checks
                                   \o b3b.checks \o b4.checks,
                    orders |-> IF u.toxic THEN remove_mm(orders) ELSE orders]

\* the market updates the coordinator is called with
MarketUpdates ==
    [symbol : Symbols, current_price : Prices, obi : ObiSignals,
     books : ArbBooks, current_prices : CurrentPrices, pairs : PairSignals,
     first : DOMAIN pairs_strategies_, vol : VolSignals, toxic : BOOLEAN]

ProcessMarketUpdate ==
    \E u \in MarketUpdates :
        /\ nupdates < MaxUpdates
        /\ process_market_update(u)
        /\ UNCHANGED <<moreVars, riskVars, fillVars, killVars, breakerVars, now,
                       breakerHistory, trackerVars>>

\* the updates that carry no single-order signal: the arbitrage and pairs
\* branches alone produce candidates
TwoLegUpdates ==
    {u \in MarketUpdates : u.obi = "NONE" /\ u.vol = "NONE" /\ ~u.toxic}

ProcessTwoLegUpdate ==
    \E u \in TwoLegUpdates :
        /\ nupdates < MaxLegUpdates
        /\ process_market_update(u)
        /\ UNCHANGED <<moreVars, riskVars, fillVars, killVars, breakerVars,
                       now, breakerHistory, trackerVars>>

\* the updates that carry at most an arbitrage candidate
ArbUpdates ==
    {u \in TwoLegUpdates :
        /\ u.current_prices = EmptyMap
        /\ u.first = "ETH_BTC"
        /\ \A p \in DOMAIN u.pairs : u.pairs[p] = "NONE"}

ProcessArbUpdate ==
    \E u \in ArbUpdates :
        /\ nupdates < MaxArbUpdates
        /\ process_market_update(u)
        /\ UNCHANGED <<moreVars, riskVars, fillVars, killVars, breakerVars,
                       now, breakerHistory, trackerVars>>

\* LatencyArbitrageStrategy::complete_arbitrage, called once per arbitrage
CompleteArbitrage ==
    /\ active_arbs_ > 0
    /\ active_arbs_' = active_arbs_ - 1
    /\ last' = [op |-> "complete_arbitrage"]
    /\ UNCHANGED <<moreVars, nupdates, riskVars, fillVars, killVars,
                   breakerVars, now, breakerHistory, trackerVars>>

(***************************************************************************)
(* RiskManager::on_fill on one thread and check_order on another, step by  *)
(* step: on_fill holds mutex_ exclusively and writes the position fields   *)
(* and the daily atomic one after the other; check_order holds it shared   *)
(* and reads the daily atomic, then the positions.                         *)
(***************************************************************************)
\* on_fill calls in the two-thread specification
MaxLockedFills == 3

\* the fills of the two-thread specification: one symbol, opened and closed
LockedFills == [symbol : {"BTCUSDT"}, side : Sides, quantity : {6},
                price : Prices, fee : FillFees]

\* the orders checked in the two-thread specification
LockedChecks == {order \in CheckOrders :
                    order.symbol = "BTCUSDT" /\ order.quantity = 6}

NoFill == [pc |-> "idle"]

NoCheck == [pc |-> "idle"]

Snapshot == [positions |-> positions_, daily |-> daily_realized_pnl_]

InitLocked ==
    /\ mutex_ = [writer |-> FALSE, readers |-> 0]
    /\ fill_thread = NoFill
    /\ check_thread = NoCheck
    /\ committed = {[positions |-> EmptyMap, daily |-> RZero]}

\* the lock without its exclusion: a shared lock granted under a writer
lock_shared_granted_always == TRUE

\* std::shared_lock<std::shared_mutex> lock(mutex_) can be taken
lock_shared_granted == ~mutex_.writer

\* std::unique_lock<std::shared_mutex> lock(mutex_) can be taken
lock_unique_granted == ~mutex_.writer /\ mutex_.readers = 0

\* on_fill: the lock and the branch taken
FillLock ==
    \E fill \in LockedFills :
        /\ fill_thread.pc = "idle"
        /\ nfills < MaxLockedFills
        /\ lock_unique_granted
        /\ mutex_' = [mutex_ EXCEPT !.writer = TRUE]
        /\ fill_thread' =
               LET pos == position_of(positions_, fill.symbol)
               IN  [pc |-> IF ~is_flat(pos) /\ ~is_adding(pos, fill)
                           THEN "closing" ELSE "opening",
                    fill |-> fill]
        /\ last' = [op |-> "on_fill_lock"]
        /\ UNCHANGED <<riskVars, fillVars, check_thread, committed, notRisk>>

\* on_fill, opening or adding branch: the writes to the position
FillOpen ==
    /\ fill_thread.pc = "opening"
    /\ LET fill == fill_thread.fill
           pos == position_of(positions_, fill.symbol)
       IN  positions_' = Put(positions_, fill.symbol, fill_position(pos, fill))
    /\ fill_thread' = [fill_thread EXCEPT !.pc = "written"]
    /\ last' = [op |-> "on_fill_open"]
    /\ UNCHANGED <<daily_realized_pnl_, peak_daily_pnl_, recent_fills_,
                   fillVars, mutex_, check_thread, committed, notRisk>>

\* on_fill, closing branch: pos.realized_pnl += (pnl - fill.fee)
FillRealized ==
    /\ fill_thread.pc = "closing"
    /\ LET fill == fill_thread.fill
           pos == positions_[fill.symbol]
           gain == closing_pnl(pos, fill)
       IN  /\ positions_' =
                  [positions_ EXCEPT ![fill.symbol].realized_pnl =
                                         RAdd(pos.realized_pnl, gain)]
           /\ fill_thread' = [pc |-> "quantity", fill |-> fill, gain |-> gain]
    /\ last' = [op |-> "on_fill_realized"]
    /\ UNCHANGED <<daily_realized_pnl_, peak_daily_pnl_, recent_fills_,
                   fillVars, mutex_, check_thread, committed, notRisk>>

\* on_fill, closing branch: pos.quantity += signed_quantity and the fees
FillQuantity ==
    /\ fill_thread.pc = "quantity"
    /\ LET fill == fill_thread.fill
           pos == positions_[fill.symbol]
       IN  positions_' =
               [positions_ EXCEPT
                    ![fill.symbol].quantity =
                        pos.quantity + signed_quantity(fill),
                    ![fill.symbol].total_fees_paid =
                        pos.total_fees_paid + fill.fee]
    /\ fill_thread' = [fill_thread EXCEPT !.pc = "daily"]
    /\ last' = [op |-> "on_fill_quantity"]
    /\ UNCHANGED <<daily_realized_pnl_, peak_daily_pnl_, recent_fills_,
                   fillVars, mutex_, check_thread, committed, notRisk>>

\* on_fill, closing branch: daily_realized_pnl_.fetch_add(pnl - fill.fee)
FillDaily ==
    /\ fill_thread.pc = "daily"
    /\ daily_realized_pnl_' = RAdd(daily_realized_pnl_, fill_thread.gain)
    /\ fill_thread' = [pc |-> "written", fill |-> fill_thread.fill]
    /\ last' = [op |-> "on_fill_daily"]
    /\ UNCHANGED <<positions_, peak_daily_pnl_, recent_fills_, fillVars,
                   mutex_, check_thread, committed, notRisk>>

\* on_fill: recent_fills_.push_back, and the lock released on return
FillReturn ==
    /\ fill_thread.pc = "written"
    /\ recent_fills_' = Min(recent_fills_ + 1, RECENT_FILLS_CAP)
    /\ mutex_' = [mutex_ EXCEPT !.writer = FALSE]
    /\ fill_sum' = [fill_sum EXCEPT ![fill_thread.fill.symbol] =
                         @ + signed_quantity(fill_thread.fill)]
    /\ nfills' = nfills + 1
    /\ committed' = committed \cup {Snapshot}
    /\ fill_thread' = NoFill
    /\ last' = [op |-> "on_fill", fill |-> fill_thread.fill]
    /\ UNCHANGED <<positions_, daily_realized_pnl_, peak_daily_pnl_,
                   check_thread, notRisk>>

\* check_order: the shared lock
CheckLock ==
    \E order \in LockedChecks, current_price \in {1} :
        /\ check_thread.pc = "idle"
        /\ lock_shared_granted
        /\ mutex_' = [mutex_ EXCEPT !.readers = @ + 1]
        /\ check_thread' = [pc |-> "pnl", order |-> order,
                            current_price |-> current_price]
        /\ last' = [op |-> "check_order_lock"]
        /\ UNCHANGED <<riskVars, fillVars, fill_thread, committed, notRisk>>

\* check_order, check 1: get_total_pnl_internal loads daily_realized_pnl_
CheckPnl ==
    /\ check_thread.pc = "pnl"
    /\ check_thread' =
           [pc |-> "positions", order |-> check_thread.order,
            current_price |-> check_thread.current_price,
            daily |-> daily_realized_pnl_]
    /\ last' = [op |-> "check_order_pnl"]
    /\ UNCHANGED <<riskVars, fillVars, mutex_, fill_thread, committed,
                   notRisk>>

\* check_order, checks 4 to 6: the positions are read, the result returned
\* and the lock released
CheckReturn ==
    /\ check_thread.pc = "positions"
    /\ mutex_' = [mutex_ EXCEPT !.readers = @ - 1]
    /\ check_thread' = NoCheck
    /\ last' = [op |-> "check_order_return",
                daily |-> check_thread.daily,
                positions |-> positions_,
                result |-> check_order(positions_, check_thread.daily,
                                       peak_daily_pnl_, check_thread.order,
                                       check_thread.current_price)]
    /\ UNCHANGED <<riskVars, fillVars, fill_thread, committed, notRisk>>

(***************************************************************************)
(* CircularBuffer (circular_buffer.hpp).                                   *)
(***************************************************************************)
\* the capacity the buffer is constructed with
Capacity == 3

Elements == {"a", "b"}

InitRing ==
    /\ data_ = [i \in 0..(Capacity - 1) |-> "raw"]
    /\ size_ = 0
    /\ head_ = 0
    /\ tail_ = 0
    /\ fifo = <<>>

\* push_back with the oldest element kept when the ring is full
push_back_keeps_tail(value) ==
    /\ data_' = [data_ EXCEPT ![head_] = value]
    /\ head_' = (head_ + 1) % Capacity
    /\ size_' = IF size_ < Capacity THEN size_ + 1 ELSE size_
    /\ UNCHANGED tail_

\* CircularBuffer::push_back
push_back(value) ==
    /\ data_' = [data_ EXCEPT ![head_] = value]
    /\ head_' = (head_ + 1) % Capacity
    /\ IF size_ < Capacity
       THEN size_' = size_ + 1 /\ UNCHANGED tail_
       ELSE tail_' = (tail_ + 1) % Capacity /\ UNCHANGED size_

\* CircularBuffer::pop_front; an empty buffer throws std::underflow_error
pop_front ==
    IF size_ = 0
    THEN UNCHANGED <<data_, size_, head_, tail_>>
    ELSE /\ tail_' = (tail_ + 1) % Capacity
         /\ size_' = size_ - 1
         /\ UNCHANGED <<data_, head_>>

\* CircularBuffer::clear
clear ==
    /\ size_' = 0
    /\ head_' = 0
    /\ tail_' = 0
    /\ UNCHANGED data_

\* CircularBuffer::operator[], for index < size_
at(index) == data_[(tail_ + index) % Capacity]

\* CircularBuffer::front, for a buffer that is not empty
front == data_[tail_]

\* CircularBuffer::back, for a buffer that is not empty
back == data_[IF head_ = 0 THEN Capacity - 1 ELSE head_ - 1]

\* what a range-based for loop visits: begin() to end(), index 0 to size_
iteration == [i \in 1..size_ |-> at(i - 1)]

\* the bounded queue after a push: the oldest element leaves a full queue
queue_push(q, value) ==
    IF Len(q) < Capacity THEN Append(q, value) ELSE Append(Tail(q), value)

PushBack ==
    \E value \in Elements :
        /\ push_back(value)
        /\ fifo' = queue_push(fifo, value)
        /\ last' = [op |-> "push_back", full |-> size_ = Capacity,
                    second |-> IF size_ >= 2 THEN at(1) ELSE value]
        /\ UNCHANGED notRing

PopFront ==
    /\ pop_front
    /\ fifo' = IF fifo = <<>> THEN fifo ELSE Tail(fifo)
    /\ last' = [op |-> "pop_front", threw |-> size_ = 0]
    /\ UNCHANGED notRing

Clear ==
    /\ clear
    /\ fifo' = <<>>
    /\ last' = [op |-> "clear"]
    /\ UNCHANGED notRing

(***************************************************************************)
(* StrategyCoordinator::on_fill and the adverse-selection filter's record  *)
(* of fills (strategy_coordinator.hpp, adverse_selection_filter.hpp).      *)
(***************************************************************************)
\* fills routed through the coordinator in one behaviour
MaxRoutedFills == 2

\* record_fill calls in one behaviour of the filter
MaxFilterFills == 2

\* the filter's clock stops here
MaxFilterTime == 4

\* one tick of the filter's clock, in milliseconds
FILTER_TICK_MS == 250

filter_config ==
    [lookback_trades |-> 20, toxic_threshold |-> Rat(6, 10),
     spread_multiplier_low |-> RInt(1), spread_multiplier_medium |-> Rat(3, 2),
     spread_multiplier_high |-> Rat(5, 2), price_movement_window_ms |-> 500,
     significant_price_move_bps |-> RInt(5)]

InitFilter ==
    /\ fill_history_ = <<>>
    /\ needs_recalc_ = TRUE
    /\ cached_toxicity_score_ = RZero
    /\ cached_spread_mult_ = RInt(1)
    /\ last_toxic_fill_time_ = 0
    /\ filter_now = 1
    /\ calc_pc = "idle"
    /\ computed_from_ = <<>>
    /\ previous_score_ = <<>>
    /\ dirty_ = FALSE

\* CircularBuffer::push_back on a buffer of lookback_trades slots, the
\* content oldest first
history_push_back(history, fill) ==
    IF Len(history) < filter_config.lookback_trades
    THEN Append(history, fill)
    ELSE Append(Tail(history), fill)

\* a record_fill that leaves the cache valid
record_fill_keeps_cache(our_side, price, quantity) ==
    /\ fill_history_' =
            history_push_back(fill_history_,
                [our_side |-> our_side, fill_price |-> price,
                 fill_quantity |-> quantity, fill_time |-> filter_now,
                 price_after_500ms |-> 0, was_adverse |-> FALSE,
                 adverse_move_bps |-> RZero])
    /\ UNCHANGED needs_recalc_

\* AdverseSelectionFilter::record_fill, the whole call under fills_mutex_
record_fill(our_side, price, quantity) ==
    /\ fill_history_' =
            history_push_back(fill_history_,
                [our_side |-> our_side, fill_price |-> price,
                 fill_quantity |-> quantity, fill_time |-> filter_now,
                 price_after_500ms |-> 0, was_adverse |-> FALSE,
                 adverse_move_bps |-> RZero])
    /\ needs_recalc_' = TRUE

\* StrategyCoordinator::on_fill: the filter is enabled by default; the
\* body makes no other call
coordinator_on_fill(fill) ==
    /\ record_fill(fill.side, fill.price, fill.quantity)
    /\ UNCHANGED <<riskVars, fillVars>>

CoordinatorOnFill ==
    \E fill \in Fills :
        /\ Len(fill_history_) < MaxRoutedFills
        /\ coordinator_on_fill(fill)
        /\ last' = [op |-> "coordinator_on_fill", fill |-> fill]
        /\ UNCHANGED <<activationVars, lockVars, ringVars, arbVars, killVars,
                       breakerVars, now, breakerHistory, trackerVars,
                       strategyVars, lateVars, filterKept>>
        /\ dirty_' = TRUE

(***************************************************************************)
(* AdverseSelectionFilter: the toxicity cache.  record_fill,               *)
(* update_current_price and the recalculation of calculate_toxicity run    *)
(* under fills_mutex_ from their first statement to their last, so each is *)
(* one step; calculate_toxicity loads needs_recalc_ before it takes the    *)
(* mutex, so the load is a step of its own.  One thread calls              *)
(* calculate_toxicity.  The clock ticks every 250 ms, which                *)
(* duration_cast<milliseconds> leaves as it is.                            *)
(***************************************************************************)
FilterSides == {"BUY", "SELL"}

\* the price of the fills and the prices seen later: 100 bps down, 6 bps
\* down, unchanged
FilterFillPrice == 10000

LaterPrices == {9900, 9994, 10000}

\* the outcome of one fill of the history at the price seen now
fill_outcome(fill, price) ==
    IF fill.price_after_500ms > 0 THEN fill
    ELSE IF (filter_now - fill.fill_time) * FILTER_TICK_MS
                < filter_config.price_movement_window_ms
    THEN fill
    ELSE LET move_bps ==
                 Rat((price - fill.fill_price) * 10000, fill.fill_price)
         IN  [fill EXCEPT
                !.price_after_500ms = price,
                !.adverse_move_bps = move_bps,
                !.was_adverse =
                    IF fill.our_side = "BUY"
                    THEN RLt(move_bps,
                             RSub(RZero,
                                  filter_config.significant_price_move_bps))
                    ELSE RLt(filter_config.significant_price_move_bps,
                             move_bps)]

\* update_current_price, the whole call under fills_mutex_
update_current_price(price) ==
    LET history == [i \in 1..Len(fill_history_) |->
                        fill_outcome(fill_history_[i], price)]
        updated == {i \in 1..Len(fill_history_) :
                        /\ fill_history_[i].price_after_500ms <= 0
                        /\ (filter_now - fill_history_[i].fill_time)
                                * FILTER_TICK_MS
                            >= filter_config.price_movement_window_ms}
    IN  /\ fill_history_' = history
        /\ last_toxic_fill_time_' =
                IF \E i \in updated : history[i].was_adverse
                THEN filter_now ELSE last_toxic_fill_time_
        /\ needs_recalc_' = (needs_recalc_ \/ updated # {})
        /\ dirty_' = (dirty_ \/ updated # {})

RECURSIVE total_adverse_move(_, _)
total_adverse_move(history, i) ==
    IF i > Len(history) THEN RZero
    ELSE RAdd(IF history[i].price_after_500ms > 0 /\ history[i].was_adverse
              THEN RAbs(history[i].adverse_move_bps) ELSE RZero,
              total_adverse_move(history, i + 1))

\* ToxicityMetrics as its constructor leaves it
ToxicityMetrics ==
    [toxicity_score |-> RZero, toxicity_level |-> "LOW",
     recommended_spread_mult |-> RInt(1), fill_adverse_ratio |-> RZero,
     avg_adverse_move_bps |-> RZero,
     time_since_last_toxic_fill_ms |-> 10000]

\* the level and the multiplier of a score
toxicity_level(score) ==
    IF RLt(score, Rat(3, 10))
    THEN <<"LOW", filter_config.spread_multiplier_low>>
    ELSE IF RLt(score, Rat(6, 10))
    THEN <<"MEDIUM", filter_config.spread_multiplier_medium>>
    ELSE <<"HIGH", filter_config.spread_multiplier_high>>

\* what calculate_toxicity computes under the mutex
recalculate ==
    LET analyzed == {i \in 1..Len(fill_history_) :
                        fill_history_[i].price_after_500ms > 0}
        adverse == {i \in analyzed : fill_history_[i].was_adverse}
        analyzed_fills == Cardinality(analyzed)
        adverse_count == Cardinality(adverse)
        ratio == IF analyzed_fills > 0
                 THEN Rat(adverse_count, analyzed_fills) ELSE RZero
        avg == IF adverse_count > 0
               THEN RDiv(total_adverse_move(fill_history_, 1),
                         RInt(adverse_count))
               ELSE RZero
        since == IF last_toxic_fill_time_ # 0
                 THEN (filter_now - last_toxic_fill_time_) * FILTER_TICK_MS
                 ELSE 10000
        magnitude == RMin(RDiv(avg, RInt(20)), RInt(1))
        recency == RMax(RZero, RSub(RInt(1), Rat(since, 10000)))
        score == RAdd(RAdd(RMul(ratio, Rat(1, 2)),
                           RMul(magnitude, Rat(3, 10))),
                      RMul(recency, Rat(2, 10)))
    IN  [toxicity_score |-> score,
         toxicity_level |-> toxicity_level(score)[1],
         recommended_spread_mult |-> toxicity_level(score)[2],
         fill_adverse_ratio |-> ratio, avg_adverse_move_bps |-> avg,
         time_since_last_toxic_fill_ms |-> since]

\* the result served from the cache
cached_metrics ==
    [ToxicityMetrics EXCEPT
        !.toxicity_score = cached_toxicity_score_,
        !.recommended_spread_mult = cached_spread_mult_]

FilterFrame ==
    UNCHANGED <<riskVars, fillVars, arbVars, killVars, breakerVars, now,
                breakerHistory, trackerVars, activationVars, lockVars,
                ringVars, strategyVars, lateVars>>

RecordFill ==
    \E our_side \in FilterSides :
        /\ Len(fill_history_) < MaxFilterFills
        /\ record_fill(our_side, FilterFillPrice, 1)
        /\ dirty_' = TRUE
        /\ last' = [op |-> "record_fill", our_side |-> our_side]
        /\ UNCHANGED filterKept
        /\ FilterFrame

UpdateCurrentPrice ==
    \E price \in LaterPrices :
        /\ update_current_price(price)
        /\ last' = [op |-> "update_current_price", price |-> price]
        /\ UNCHANGED <<cached_toxicity_score_, cached_spread_mult_,
                       filter_now, calc_pc, computed_from_, previous_score_>>
        /\ FilterFrame

\* calculate_toxicity up to the load of needs_recalc_: it returns the
\* cached result, or goes on to take the mutex
CalculateToxicityLoad ==
    /\ calc_pc = "idle"
    /\ IF needs_recalc_
       THEN /\ calc_pc' = "recalculate"
            /\ last' = [op |-> "needs_recalc_.load"]
            /\ UNCHANGED <<previous_score_, dirty_>>
       ELSE /\ calc_pc' = "idle"
            /\ last' = [op |-> "calculate_toxicity", cached |-> TRUE,
                        metrics |-> cached_metrics,
                        previous |-> previous_score_, dirty |-> dirty_]
            /\ previous_score_' = <<cached_metrics.toxicity_score>>
            /\ dirty_' = FALSE
    /\ UNCHANGED <<fill_history_, needs_recalc_, cached_toxicity_score_,
                   cached_spread_mult_, last_toxic_fill_time_, filter_now,
                   computed_from_>>
    /\ FilterFrame

\* calculate_toxicity from the lock_guard to its return
CalculateToxicityRecalculate ==
    /\ calc_pc = "recalculate"
    /\ calc_pc' = "idle"
    /\ cached_toxicity_score_' = recalculate.toxicity_score
    /\ cached_spread_mult_' = recalculate.recommended_spread_mult
    /\ needs_recalc_' = FALSE
    /\ computed_from_' = <<fill_history_, last_toxic_fill_time_>>
    /\ last' = [op |-> "calculate_toxicity", cached |-> FALSE,
                metrics |-> recalculate, previous |-> previous_score_,
                dirty |-> dirty_]
    /\ previous_score_' = <<recalculate.toxicity_score>>
    /\ dirty_' = FALSE
    /\ UNCHANGED <<fill_history_, last_toxic_fill_time_, filter_now>>
    /\ FilterFrame

FilterTick ==
    /\ filter_now < MaxFilterTime
    /\ filter_now' = filter_now + 1
    /\ last' = [op |-> "tick"]
    /\ UNCHANGED <<fill_history_, needs_recalc_, dirty_,
                   cached_toxicity_score_, cached_spread_mult_,
                   last_toxic_fill_time_, calc_pc, computed_from_,
                   previous_score_>>
    /\ FilterFrame

(***************************************************************************)
(* KillSwitch (circuit_breaker.hpp), each call run to completion.          *)
(***************************************************************************)
MaxHandlers == 2

MaxActivations == 2

Reasons == {"manual", "loss"}

Handlers == {"cancel_all", "flatten"}

InitKill ==
    /\ activated_ = FALSE
    /\ activation_reason_ = ""
    /\ shutdown_handlers_ = <<>>
    /\ handler_calls = <<>>

\* KillSwitch::activate: only the call that latches the flag runs the handlers
activate(reason) ==
    IF ~activated_
    THEN /\ activated_' = TRUE
         /\ activation_reason_' = reason
         /\ handler_calls' = handler_calls \o shutdown_handlers_
         /\ UNCHANGED shutdown_handlers_
    ELSE UNCHANGED killVars

\* KillSwitch::register_shutdown_handler
register_shutdown_handler(handler) ==
    /\ shutdown_handlers_' = Append(shutdown_handlers_, handler)
    /\ UNCHANGED <<activated_, activation_reason_, handler_calls>>

\* KillSwitch::reset
reset ==
    /\ activated_' = FALSE
    /\ activation_reason_' = ""
    /\ UNCHANGED <<shutdown_handlers_, handler_calls>>

Activate ==
    \E reason \in Reasons :
        /\ Len(handler_calls) + Len(shutdown_handlers_)
               <= MaxActivations * MaxHandlers
        /\ activate(reason)
        /\ last' = [op |-> "activate", reason |-> reason]
        /\ UNCHANGED <<moreVars, riskVars, fillVars, arbVars, breakerVars, now,
                       breakerHistory, trackerVars>>

RegisterShutdownHandler ==
    \E handler \in Handlers :
        /\ Len(shutdown_handlers_) < MaxHandlers
        /\ register_shutdown_handler(handler)
        /\ last' = [op |-> "register_shutdown_handler"]
        /\ UNCHANGED <<moreVars, riskVars, fillVars, arbVars, breakerVars, now,
                       breakerHistory, trackerVars>>

Reset ==
    /\ reset
    /\ last' = [op |-> "reset"]
    /\ UNCHANGED <<moreVars, riskVars, fillVars, arbVars, breakerVars, now,
                   breakerHistory, trackerVars>>

(***************************************************************************)
(* KillSwitch::activate step by step, called from several threads.  A call *)
(* is the compare-exchange on activated_, then the write of the reason,    *)
(* then the lock of handlers_mutex_, then one step per handler.            *)
(***************************************************************************)
Threads == {"t1", "t2"}

\* what a std::function<void()> can do when called: return, throw an
\* exception derived from std::exception, or throw anything else
HandlerOutcomes == {"returns", "std_exception", "other_exception"}

Idle == [pc |-> "idle", reason |-> "", next |-> 0]

InitActivations ==
    /\ activations_ = [t \in Threads |-> Idle]
    /\ handlers_mutex_ = "free"
    /\ registered_first_ = <<>>

\* the catch clause of the handler loop: catch (const std::exception&)
caught(outcome) == outcome = "std_exception"

\* activated_.compare_exchange_strong(expected, true)
compare_exchange(t, reason) ==
    IF ~activated_
    THEN /\ activated_' = TRUE
         /\ registered_first_' = shutdown_handlers_
         /\ activations_' = [activations_ EXCEPT
                ![t] = [pc |-> "latched", reason |-> reason, next |-> 0]]
    ELSE UNCHANGED <<activated_, registered_first_, activations_>>

ActivateCall(t) ==
    \E reason \in Reasons :
        /\ activations_[t].pc = "idle"
        /\ compare_exchange(t, reason)
        /\ last' = [op |-> "activate", thread |-> t, won |-> ~activated_]
        /\ UNCHANGED <<activation_reason_, shutdown_handlers_, handler_calls,
                       handlers_mutex_, notKill>>

\* activation_reason_ = reason
ActivateReason(t) ==
    /\ activations_[t].pc = "latched"
    /\ activation_reason_' = activations_[t].reason
    /\ activations_' = [activations_ EXCEPT
           ![t] = [pc |-> "locking", reason |-> "", next |-> 0]]
    /\ last' = [op |-> "activate_reason", thread |-> t]
    /\ UNCHANGED <<activated_, shutdown_handlers_, handler_calls,
                   handlers_mutex_, registered_first_, notKill>>

\* std::lock_guard<std::mutex> lock(handlers_mutex_)
ActivateLock(t) ==
    /\ activations_[t].pc = "locking"
    /\ handlers_mutex_ = "free"
    /\ handlers_mutex_' = t
    /\ activations_' = [activations_ EXCEPT
           ![t] = [pc |-> "running", reason |-> "", next |-> 1]]
    /\ last' = [op |-> "activate_lock", thread |-> t]
    /\ UNCHANGED <<killVars, registered_first_, notKill>>

\* one iteration of the handler loop: an exception the catch clause does not
\* take leaves activate, and the lock_guard releases the mutex on the way out
ActivateHandler(t) ==
    \E outcome \in HandlerOutcomes :
        /\ activations_[t].pc = "running"
        /\ activations_[t].next <= Len(shutdown_handlers_)
        /\ handler_calls' =
               Append(handler_calls, shutdown_handlers_[activations_[t].next])
        /\ IF outcome = "returns" \/ caught(outcome)
           THEN /\ activations_' = [activations_ EXCEPT
                       ![t].next = activations_[t].next + 1]
                /\ UNCHANGED handlers_mutex_
           ELSE /\ activations_' = [activations_ EXCEPT ![t] = Idle]
                /\ handlers_mutex_' = "free"
        /\ last' = [op |-> "handler", thread |-> t, outcome |-> outcome]
        /\ UNCHANGED <<activated_, activation_reason_, shutdown_handlers_,
                       registered_first_, notKill>>

\* the end of the handler loop
ActivateReturn(t) ==
    /\ activations_[t].pc = "running"
    /\ activations_[t].next > Len(shutdown_handlers_)
    /\ activations_' = [activations_ EXCEPT ![t] = Idle]
    /\ handlers_mutex_' = "free"
    /\ last' = [op |-> "activate_return", thread |-> t]
    /\ UNCHANGED <<killVars, registered_first_, notKill>>

\* register_shutdown_handler from another thread: it takes handlers_mutex_
RegisterUnderLock ==
    /\ handlers_mutex_ = "free"
    /\ RegisterShutdownHandler

(***************************************************************************)
(* CircuitBreaker (circuit_breaker.hpp), each call run to completion.      *)
(* Time is in units of 10 seconds.                                         *)
(***************************************************************************)
\* the clock stops here
MaxTime == 8

\* CircuitBreaker::Config as the breaker is constructed with
config_ ==
    [failure_threshold |-> 3, success_threshold |-> 2, timeout |-> 3,
     test_period |-> 2]

\* what the cycle history records: the phase reached, the calls counted in
\* it, and the time of the failure that opened the breaker
NoCycle == [phase |-> "none", n |-> 0, t |-> 0]

InitBreaker ==
    /\ state_ = "CLOSED"
    /\ failure_count_ = 0
    /\ success_count_ = 0
    /\ last_failure_time_ = 0
    /\ half_open_start_ = 0
    /\ now = 0
    /\ test_entered = 0
    /\ test_successes = 0
    /\ cycle = NoCycle

\* open without the failure time being recorded
open_keeps_time ==
    /\ state_' = "OPEN"
    /\ UNCHANGED last_failure_time_

\* CircuitBreaker::open
open ==
    IF state_ # "OPEN"
    THEN /\ state_' = "OPEN"
         /\ last_failure_time_' = now
    ELSE UNCHANGED <<state_, last_failure_time_>>

\* CircuitBreaker::allow_request; result is the value returned
allow_request(result) ==
    IF state_ = "OPEN"
    THEN IF now - last_failure_time_ >= config_.timeout
         THEN /\ state_' = "HALF_OPEN"
              /\ half_open_start_' = now
              /\ result = TRUE
              /\ UNCHANGED <<failure_count_, success_count_,
                             last_failure_time_>>
         ELSE /\ result = FALSE
              /\ UNCHANGED breakerVars
    ELSE IF /\ state_ = "HALF_OPEN"
            /\ now - half_open_start_ >= config_.test_period
            /\ success_count_ < config_.success_threshold
    THEN /\ open
         /\ result = FALSE
         /\ UNCHANGED <<failure_count_, success_count_, half_open_start_>>
    ELSE /\ result = TRUE
         /\ UNCHANGED breakerVars

\* record_success that closes the breaker without clearing the counts
record_success_keeps_counts ==
    IF state_ = "HALF_OPEN"
    THEN IF success_count_ + 1 >= config_.success_threshold
         THEN /\ state_' = "CLOSED"
              /\ success_count_' = success_count_ + 1
              /\ UNCHANGED <<failure_count_, last_failure_time_,
                             half_open_start_>>
         ELSE /\ success_count_' = success_count_ + 1
              /\ UNCHANGED <<state_, failure_count_, last_failure_time_,
                             half_open_start_>>
    ELSE UNCHANGED breakerVars

\* CircuitBreaker::record_success
record_success ==
    IF state_ = "HALF_OPEN"
    THEN IF success_count_ + 1 >= config_.success_threshold
         THEN /\ state_' = "CLOSED"
              /\ failure_count_' = 0
              /\ success_count_' = 0
              /\ UNCHANGED <<last_failure_time_, half_open_start_>>
         ELSE /\ success_count_' = success_count_ + 1
              /\ UNCHANGED <<state_, failure_count_, last_failure_time_,
                             half_open_start_>>
    ELSE IF state_ = "CLOSED" /\ failure_count_ > 0
    THEN /\ failure_count_' = failure_count_ - 1
         /\ UNCHANGED <<state_, success_count_, last_failure_time_,
                        half_open_start_>>
    ELSE UNCHANGED breakerVars

\* CircuitBreaker::record_failure
record_failure ==
    IF state_ = "HALF_OPEN"
    THEN /\ open
         /\ UNCHANGED <<failure_count_, success_count_, half_open_start_>>
    ELSE IF state_ = "CLOSED"
    THEN /\ failure_count_' = failure_count_ + 1
         /\ IF failure_count_ + 1 >= config_.failure_threshold
            THEN open
            ELSE UNCHANGED <<state_, last_failure_time_>>
         /\ UNCHANGED <<success_count_, half_open_start_>>
    ELSE UNCHANGED breakerVars

\* CircuitBreaker::close
close ==
    /\ state_' = "CLOSED"
    /\ failure_count_' = 0
    /\ success_count_' = 0
    /\ UNCHANGED <<last_failure_time_, half_open_start_>>

\* the canonical cycle: failures from CLOSED with zero counts, the wait in
\* OPEN, the test request, the successes of the test.  Any other call
\* abandons it.
CycleAfter(op) ==
    IF op = "record_failure"
    THEN LET n == IF cycle.phase = "failing" THEN cycle.n + 1
                  ELSE IF /\ state_ = "CLOSED"
                          /\ failure_count_ = 0
                          /\ success_count_ = 0
                  THEN 1
                  ELSE 0
         IN  IF n = 0 THEN NoCycle
             ELSE IF n >= config_.failure_threshold
             THEN [phase |-> "open", n |-> 0, t |-> now]
             ELSE [phase |-> "failing", n |-> n, t |-> 0]
    ELSE IF op = "allow_request" /\ cycle.phase = "open"
    THEN IF now - cycle.t >= config_.timeout
         THEN [phase |-> "testing", n |-> 0, t |-> 0]
         ELSE cycle
    ELSE IF op = "record_success" /\ cycle.phase = "testing"
    THEN IF cycle.n + 1 >= config_.success_threshold
         THEN [phase |-> "closed", n |-> 0, t |-> 0]
         ELSE [phase |-> "testing", n |-> cycle.n + 1, t |-> 0]
    ELSE NoCycle

\* the half-open test in progress and the successes recorded during it
TestAfter(op) ==
    IF op = "allow_request" /\ state_ = "OPEN" /\ state_' = "HALF_OPEN"
    THEN test_entered' = now /\ test_successes' = 0
    ELSE IF op = "record_success" /\ state_ = "HALF_OPEN"
    THEN test_successes' = test_successes + 1 /\ UNCHANGED test_entered
    ELSE UNCHANGED <<test_entered, test_successes>>

BreakerCall(op) ==
    /\ cycle' = CycleAfter(op)
    /\ TestAfter(op)
    /\ UNCHANGED <<moreVars, riskVars, fillVars, arbVars, killVars,
                   trackerVars, now>>

AllowRequest ==
    \E result \in BOOLEAN :
        /\ allow_request(result)
        /\ last' = [op |-> "allow_request", from |-> state_,
                    result |-> result]
        /\ BreakerCall("allow_request")

RecordSuccess ==
    /\ record_success
    /\ last' = [op |-> "record_success", from |-> state_]
    /\ BreakerCall("record_success")

RecordFailure ==
    /\ record_failure
    /\ last' = [op |-> "record_failure", from |-> state_]
    /\ BreakerCall("record_failure")

ForceOpen ==
    /\ open
    /\ UNCHANGED <<failure_count_, success_count_, half_open_start_>>
    /\ last' = [op |-> "open", from |-> state_]
    /\ BreakerCall("open")

Close ==
    /\ close
    /\ last' = [op |-> "close", from |-> state_]
    /\ BreakerCall("close")

\* time passes between calls
Tick(bound) ==
    /\ now < bound
    /\ now' = now + 1
    /\ last' = [op |-> "tick"]
    /\ UNCHANGED <<moreVars, riskVars, fillVars, arbVars, killVars, breakerVars,
                   breakerHistory, trackerVars>>


(***************************************************************************)
(* OrderTracker (order_tracker.hpp), each call under the exclusive lock.   *)
(* An Order is the fields the tracker reads (the two ids, the symbol, the  *)
(* status and the completion time) and the three quantities it stores.     *)
(***************************************************************************)
\* track_order calls and update_order calls in one behaviour
MaxTracks == 2

MaxOrderUpdates == 1

\* the clock of the tracker specification stops here
MaxTrackerTime == 2

\* the tracker's clock ticks twice a second; the retention period and the
\* age cleanup_completed compares are whole seconds
TICKS_PER_SECOND == 2

\* the overflow threshold and the number of orders an overflow evicts,
\* scaled down from 100000 and 1000
MAX_ORDERS == 1

OVERFLOW_EVICTIONS == 1

ClientIds == {"c1", "c2"}

\* the exchange id is empty until the exchange acknowledges the order
ExchangeIds == {"", "x1"}

Statuses == {"PENDING", "NEW", "PARTIALLY_FILLED", "FILLED"}

Retentions == {0, 1}

\* Order::is_active
is_active(order) == order.status \in {"NEW", "PARTIALLY_FILLED"}

\* Order::is_complete
is_complete(order) ==
    order.status \in {"FILLED", "CANCELED", "REJECTED", "EXPIRED"}

\* the quantities of an order of two units in each status: a PENDING order
\* is as the strategies build it (Order() zeroes the three quantities and
\* create_order_from_signal assigns quantity alone), the others are as an
\* exchange reports them
quantities(status) ==
    CASE status = "PENDING" ->
             [quantity |-> 2, filled_quantity |-> 0, remaining_quantity |-> 0]
      [] status = "NEW" ->
             [quantity |-> 2, filled_quantity |-> 0, remaining_quantity |-> 2]
      [] status = "PARTIALLY_FILLED" ->
             [quantity |-> 2, filled_quantity |-> 1, remaining_quantity |-> 1]
      [] OTHER ->
             [quantity |-> 2, filled_quantity |-> 2, remaining_quantity |-> 0]

\* the orders the tracker is called with: a completed order carries the
\* time of the call as its completion time
OrdersAt(time) ==
    {[order_id |-> x, client_order_id |-> c, symbol |-> s, status |-> st,
      completed_time |-> IF is_complete([status |-> st]) THEN time ELSE 0,
      quantity |-> quantities(st).quantity,
      filled_quantity |-> quantities(st).filled_quantity,
      remaining_quantity |-> quantities(st).remaining_quantity] :
        x \in ExchangeIds, c \in ClientIds, s \in Symbols, st \in Statuses}

InitTracker ==
    /\ orders_ = EmptyMap
    /\ order_id_to_client_id_ = EmptyMap
    /\ symbol_orders_ = EmptyMap
    /\ active_orders_ = {}
    /\ ntracks = 0
    /\ norder_updates = 0

\* a map without one key
Erase(m, k) == [x \in DOMAIN m \ {k} |-> m[x]]

\* std::remove and erase: the sequence without the occurrences of v
RECURSIVE Without(_, _)
Without(seq, v) ==
    IF seq = <<>> THEN <<>>
    ELSE IF Head(seq) = v THEN Without(Tail(seq), v)
    ELSE <<Head(seq)>> \o Without(Tail(seq), v)

\* the tracker after one order has been removed from the map and from the
\* indices; active_id is the id erased from the active set
remove_order(t, client_id, active_id) ==
    LET order == t.orders[client_id]
    IN  [orders |-> Erase(t.orders, client_id),
         ids |-> Erase(t.ids, order.order_id),
         symbols |->
             IF order.symbol \in DOMAIN t.symbols
             THEN [t.symbols EXCEPT ![order.symbol] =
                       Without(@, order.client_order_id)]
             ELSE t.symbols,
         active |-> t.active \ {active_id}]

RECURSIVE remove_orders(_, _)
remove_orders(t, client_ids) ==
    IF client_ids = {} THEN t
    ELSE LET c == CHOOSE x \in client_ids : TRUE
         IN  remove_orders(remove_order(t, c, c), client_ids \ {c})

Tracker ==
    [orders |-> orders_, ids |-> order_id_to_client_id_,
     symbols |-> symbol_orders_, active |-> active_orders_]

completed_orders(t) == {c \in DOMAIN t.orders : is_complete(t.orders[c])}

\* cleanup_oldest_internal: the sets of orders that sorting the completed
\* orders by completion time may put first; equal times sort either way
oldest(t, n) ==
    LET completed == completed_orders(t)
        to_remove == Min(n, Cardinality(completed))
    IN  {R \in SUBSET completed :
            /\ Cardinality(R) = to_remove
            /\ \A r \in R, c \in completed \ R :
                   t.orders[r].completed_time <= t.orders[c].completed_time}

\* OrderTracker::track_order; evicted is what the overflow cleanup removes
track_order(order, evicted) ==
    LET t == IF Cardinality(DOMAIN orders_) >= MAX_ORDERS
             THEN remove_orders(Tracker, evicted)
             ELSE Tracker
        symbol_ids == IF order.symbol \in DOMAIN t.symbols
                      THEN t.symbols[order.symbol]
                      ELSE <<>>
    IN  /\ orders_' = Put(t.orders, order.client_order_id, order)
        /\ order_id_to_client_id_' =
               Put(t.ids, order.order_id, order.client_order_id)
        /\ symbol_orders_' =
               Put(t.symbols, order.symbol,
                   Append(symbol_ids, order.client_order_id))
        /\ active_orders_' =
               IF is_active(order)
               THEN t.active \cup {order.client_order_id}
               ELSE t.active

\* OrderTracker::update_order
update_order(client_order_id, updated) ==
    IF client_order_id \notin DOMAIN orders_
    THEN UNCHANGED <<orders_, order_id_to_client_id_, symbol_orders_,
                     active_orders_>>
    ELSE /\ active_orders_' =
                IF is_active(orders_[client_order_id]) /\ ~is_active(updated)
                THEN active_orders_ \ {client_order_id}
                ELSE IF /\ ~is_active(orders_[client_order_id])
                        /\ is_active(updated)
                THEN active_orders_ \cup {client_order_id}
                ELSE active_orders_
         /\ orders_' = [orders_ EXCEPT ![client_order_id] = updated]
         /\ UNCHANGED <<order_id_to_client_id_, symbol_orders_>>

\* duration_cast<std::chrono::seconds>: the whole seconds of a duration
\* given in clock ticks, the rest dropped
seconds(ticks) == ticks \div TICKS_PER_SECOND

\* cleanup_completed removing at the retention period, not past it
expired_at_retention(retention_period) ==
    {c \in DOMAIN orders_ :
        /\ is_complete(orders_[c])
        /\ seconds(now - orders_[c].completed_time) >= retention_period}

\* the orders cleanup_completed removes
expired(retention_period) ==
    {c \in DOMAIN orders_ :
        /\ is_complete(orders_[c])
        /\ seconds(now - orders_[c].completed_time) > retention_period}

RECURSIVE cleanup_loop(_, _)
cleanup_loop(t, client_ids) ==
    IF client_ids = {} THEN t
    ELSE LET c == CHOOSE x \in client_ids : TRUE
         IN  cleanup_loop(remove_order(t, c, t.orders[c].client_order_id),
                          client_ids \ {c})

\* OrderTracker::cleanup_completed; removed is the value returned
cleanup_completed(retention_period, removed) ==
    LET t == cleanup_loop(Tracker, expired(retention_period))
    IN  /\ orders_' = t.orders
        /\ order_id_to_client_id_' = t.ids
        /\ symbol_orders_' = t.symbols
        /\ active_orders_' = t.active
        /\ removed = Cardinality(expired(retention_period))

\* OrderTracker::get_active_orders, as the set of the orders returned
get_active_orders ==
    {orders_[c] : c \in active_orders_ \cap DOMAIN orders_}

\* a std::optional is a sequence of at most one value; nullopt is empty
nullopt == <<>>

\* OrderTracker::get_order
get_order(t, client_order_id) ==
    IF client_order_id \in DOMAIN t.orders
    THEN <<t.orders[client_order_id]>>
    ELSE nullopt

\* OrderTracker::get_order_by_exchange_id
get_order_by_exchange_id(t, order_id) ==
    IF order_id \in DOMAIN t.ids
    THEN get_order(t, t.ids[order_id])
    ELSE nullopt

\* OrderTracker::get_symbol: the exchange-id index first, then the id taken
\* as a client id
get_symbol(t, order_id) ==
    IF order_id \in DOMAIN t.ids /\ t.ids[order_id] \in DOMAIN t.orders
    THEN <<t.orders[t.ids[order_id]].symbol>>
    ELSE IF order_id \in DOMAIN t.orders
    THEN <<t.orders[order_id].symbol>>
    ELSE nullopt

\* the orders of the client ids of a symbol's index entry that are in the map
RECURSIVE orders_of(_, _)
orders_of(t, client_ids) ==
    IF client_ids = <<>> THEN <<>>
    ELSE IF Head(client_ids) \in DOMAIN t.orders
    THEN <<t.orders[Head(client_ids)]>> \o orders_of(t, Tail(client_ids))
    ELSE orders_of(t, Tail(client_ids))

\* OrderTracker::get_orders_for_symbol
get_orders_for_symbol(t, symbol) ==
    IF symbol \in DOMAIN t.symbols
    THEN orders_of(t, t.symbols[symbol])
    ELSE <<>>

TrackerCall ==
    UNCHANGED <<moreVars, riskVars, fillVars, arbVars, killVars, breakerVars,
                now, breakerHistory>>

TrackOrderFrom(orders) ==
    \E order \in orders :
        \E evicted \in oldest(Tracker, OVERFLOW_EVICTIONS) :
            /\ ntracks < MaxTracks
            /\ track_order(order, evicted)
            /\ ntracks' = ntracks + 1
            /\ last' = [op |-> "track_order", order |-> order]
            /\ UNCHANGED norder_updates
            /\ TrackerCall

TrackOrder == TrackOrderFrom(OrdersAt(now))

\* the caller updates an order under its own client id
UpdateOrderFrom(orders) ==
    \E updated \in orders :
        /\ norder_updates < MaxOrderUpdates
        /\ update_order(updated.client_order_id, updated)
        /\ norder_updates' = norder_updates + 1
        /\ last' = [op |-> "update_order", order |-> updated]
        /\ UNCHANGED ntracks
        /\ TrackerCall

UpdateOrder == UpdateOrderFrom(OrdersAt(now))

\* orders of one symbol, not yet acknowledged, open or filled
OpenOrFilledAt(time) ==
    {order \in OrdersAt(time) :
        /\ order.symbol = "BTCUSDT"
        /\ order.order_id = ""
        /\ order.status \in {"NEW", "FILLED"}}

CleanupCompleted ==
    \E retention_period \in Retentions, removed \in 0..Cardinality(ClientIds) :
        /\ cleanup_completed(retention_period, removed)
        /\ last' = [op |-> "cleanup_completed", removed |-> removed,
                    retention_period |-> retention_period]
        /\ UNCHANGED <<ntracks, norder_updates>>
        /\ TrackerCall


(***************************************************************************)
(* LatencyArbOptimized (latency_arb_optimized.hpp).  Prices are whole      *)
(* dollars, level quantities whole coins, basis points exact rationals.    *)
(* Time is counted in ticks of half a millisecond, so that                 *)
(* duration_cast<milliseconds> and duration_cast<seconds> have something   *)
(* to truncate.                                                            *)
(***************************************************************************)
\* detect_global_best_opportunity calls in one behaviour of one thread
MaxDetections == 1

\* detect_global_best_opportunity calls in one behaviour of two threads
MaxRacingDetections == 5

\* advances of the clock in one behaviour
MaxArbTicks == 2

TICKS_PER_MS == 2

Venues == {"BINANCE", "KRAKEN", "COINBASE"}

UNKNOWN == "UNKNOWN"

arb_config ==
    [base_min_profit_bps |-> RInt(15), min_profit_decay_rate |-> Rat(7, 10),
     max_slippage_bps |-> RInt(8), max_orderbook_staleness_ms |-> 50,
     position_size_usd |-> 2000, max_concurrent_arbs |-> 3,
     max_execution_latency_us |-> 200]

\* the clock at construction
ArbStart == 200

\* what the clock advances by: a tick short of 61 seconds, and 61 seconds
ArbAdvances == {61000 * TICKS_PER_MS - 1, 61000 * TICKS_PER_MS}

\* an OrderBook: the levels <<price, quantity>> of each side, best first
Book(bids, asks) == [bids |-> bids, asks |-> asks]

get_best_bid(book) == IF book.bids = <<>> THEN 0 ELSE book.bids[1][1]

get_best_ask(book) == IF book.asks = <<>> THEN 0 ELSE book.asks[1][1]

\* the books a venue can show: 4 coins offered at 500; 3 coins at 500 and
\* the rest at 501 or 502; dearer books bidding 502 or 503; an empty book
VenueBookKinds ==
    [cheap   |-> Book(<<<<499, 4>>>>, <<<<500, 4>>>>),
     thin    |-> Book(<<<<499, 4>>>>, <<<<500, 3>>, <<501, 4>>>>),
     thinner |-> Book(<<<<499, 4>>>>, <<<<500, 3>>, <<502, 4>>>>),
     dear40  |-> Book(<<<<502, 4>>>>, <<<<503, 4>>>>),
     dear60  |-> Book(<<<<503, 4>>>>, <<<<504, 4>>>>),
     empty   |-> Book(<<>>, <<>>)]

\* the books of each venue; "absent" leaves the venue out of the map
VenueBooks ==
    [v \in Venues |->
        CASE v = "BINANCE" -> {"absent", "cheap", "thin", "thinner"}
          [] v = "KRAKEN" -> {"absent", "cheap", "dear40", "dear60", "empty"}
          [] OTHER -> {"absent", "cheap", "dear60"}]

\* the ages of a venue's timestamp in ticks (0 ms, 50.5 ms, 51 ms), -1 for
\* a venue without a timestamp
VenueAges ==
    [v \in Venues |->
        CASE v = "COINBASE" -> {-1, 0}
          [] v = "BINANCE" -> {0, 51 * TICKS_PER_MS}
          [] OTHER -> {-1, 0, 50 * TICKS_PER_MS + 1, 51 * TICKS_PER_MS}]

\* the orders in which the unordered_map of books can be iterated
IterationOrders ==
    {<<"BINANCE", "KRAKEN", "COINBASE">>, <<"COINBASE", "KRAKEN", "BINANCE">>}

milliseconds(ticks) == ticks \div TICKS_PER_MS

whole_seconds(ticks) == ticks \div (1000 * TICKS_PER_MS)

get_fee_bps(venue) ==
    CASE venue = "BINANCE" -> 10
      [] venue = "KRAKEN" -> 16
      [] venue = "COINBASE" -> 40
      [] OTHER -> 20

get_dynamic_threshold ==
    IF whole_seconds(arb_clock - last_opportunity_time_) > 60
    THEN RMul(arb_config.base_min_profit_bps,
              arb_config.min_profit_decay_rate)
    ELSE arb_config.base_min_profit_bps

\* the value filled walking the levels from level i on
RECURSIVE walk_levels(_, _, _, _)
walk_levels(levels, i, remaining_qty, total_value) ==
    IF i > Len(levels) THEN total_value
    ELSE LET fill_qty == RMin(remaining_qty, RInt(levels[i][2]))
             value == RAdd(total_value, RMul(fill_qty, RInt(levels[i][1])))
             remaining == RSub(remaining_qty, fill_qty)
         IN  IF RLe(remaining, RZero) THEN value
             ELSE walk_levels(levels, i + 1, remaining, value)

estimate_slippage(book, quantity, side) ==
    LET levels == IF side = "BUY" THEN book.asks ELSE book.bids
        total_value == walk_levels(levels, 1, quantity, RZero)
        best_price ==
            IF side = "BUY" THEN get_best_ask(book) ELSE get_best_bid(book)
    IN  IF total_value = RZero THEN RZero
        ELSE RDiv(RAbs(RSub(RDiv(total_value, quantity), RInt(best_price))),
                  RInt(best_price))

\* the venues of the map in iteration order
Present(books, order) == SelectSeq(order, LAMBDA v : v \in DOMAIN books)

\* the first venue in iteration order with the lowest positive best ask
best_buy_venue(books, order) ==
    LET seq == Present(books, order)
        asks == {i \in 1..Len(seq) : get_best_ask(books[seq[i]]) > 0}
    IN  IF asks = {} THEN UNKNOWN
        ELSE seq[CHOOSE i \in asks : \A j \in asks :
                    \/ get_best_ask(books[seq[i]]) < get_best_ask(books[seq[j]])
                    \/ /\ get_best_ask(books[seq[i]])
                            = get_best_ask(books[seq[j]])
                       /\ i <= j]

\* the first venue in iteration order with the highest positive best bid
best_sell_venue(books, order) ==
    LET seq == Present(books, order)
        bids == {i \in 1..Len(seq) : get_best_bid(books[seq[i]]) > 0}
    IN  IF bids = {} THEN UNKNOWN
        ELSE seq[CHOOSE i \in bids : \A j \in bids :
                    \/ get_best_bid(books[seq[i]]) > get_best_bid(books[seq[j]])
                    \/ /\ get_best_bid(books[seq[i]])
                            = get_best_bid(books[seq[j]])
                       /\ i <= j]

EnhancedArbOpportunity ==
    [buy_venue |-> UNKNOWN, sell_venue |-> UNKNOWN, buy_price |-> 0,
     sell_price |-> 0, gross_profit_bps |-> RZero, fees_bps |-> RZero,
     slippage_bps |-> RZero, net_profit_bps |-> RZero,
     expected_profit_usd |-> RZero, execute_quantity |-> RZero,
     orderbook_age_ms |-> 0, is_valid |-> FALSE, reject_reason |-> ""]

\* the age of the younger of the two timestamps
youngest_age(timestamps, venues) ==
    LET ages == {milliseconds(arb_clock - timestamps[v]) :
                    v \in venues \cap DOMAIN timestamps}
    IN  IF ages = {} THEN 0
        ELSE Max(0, CHOOSE a \in ages : \A b \in ages : a <= b)

\* the age of the older of the two timestamps, in whole milliseconds; a
\* venue without a timestamp does not count
max_age(timestamps, venues) ==
    LET ages == {milliseconds(arb_clock - timestamps[v]) :
                    v \in venues \cap DOMAIN timestamps}
    IN  IF ages = {} THEN 0
        ELSE Max(0, CHOOSE a \in ages : \A b \in ages : b <= a)

\* the checks in an order that compares the net profit before the age
reject_reason_profit_first(slippage, age, net, slow) ==
    IF RLt(arb_config.max_slippage_bps, slippage) THEN "Slippage too high"
    ELSE IF RLt(net, get_dynamic_threshold) THEN "Net profit below threshold"
    ELSE IF age > arb_config.max_orderbook_staleness_ms
    THEN "Orderbook too stale"
    ELSE IF slow THEN "Detection too slow"
    ELSE ""

\* the first check of detect_global_best_opportunity that fails, in the
\* order it makes them; "" when none does
reject_reason(slippage, age, net, slow) ==
    IF RLt(arb_config.max_slippage_bps, slippage) THEN "Slippage too high"
    ELSE IF age > arb_config.max_orderbook_staleness_ms
    THEN "Orderbook too stale"
    ELSE IF RLt(net, get_dynamic_threshold) THEN "Net profit below threshold"
    ELSE IF slow THEN "Detection too slow"
    ELSE ""

\* detect_global_best_opportunity: what it returns, <<>> for std::nullopt.
\* slow says whether the call took more than max_execution_latency_us.
detect_global_best_opportunity(books, order, timestamps, slow) ==
    LET buy == best_buy_venue(books, order)
        sell == best_sell_venue(books, order)
    IN
    IF active_arbs_ >= arb_config.max_concurrent_arbs THEN <<>>
    ELSE IF buy = UNKNOWN \/ sell = UNKNOWN \/ buy = sell THEN <<>>
    ELSE
    LET best_buy_price == get_best_ask(books[buy])
        best_sell_price == get_best_bid(books[sell])
        gross == Rat((best_sell_price - best_buy_price) * 10000,
                     best_buy_price)
        fees == RInt(get_fee_bps(buy) + get_fee_bps(sell))
        target_qty == Rat(arb_config.position_size_usd, best_buy_price)
        slippage ==
            RMul(RAdd(estimate_slippage(books[buy], target_qty, "BUY"),
                      estimate_slippage(books[sell], target_qty, "SELL")),
                 RInt(10000))
        net == RSub(RSub(gross, fees), slippage)
        age == max_age(timestamps, {buy, sell})
        max_qty == Min(books[buy].asks[1][2], books[sell].bids[1][2])
        target_notional ==
            Min(arb_config.position_size_usd, max_qty * best_buy_price)
        built == [EnhancedArbOpportunity EXCEPT
                    !.buy_venue = buy, !.sell_venue = sell,
                    !.buy_price = best_buy_price,
                    !.sell_price = best_sell_price,
                    !.gross_profit_bps = gross, !.fees_bps = fees,
                    !.slippage_bps = slippage]
        priced == [built EXCEPT !.net_profit_bps = net]
        aged == [priced EXCEPT !.orderbook_age_ms = age]
        sized == [aged EXCEPT
                    !.execute_quantity = Rat(target_notional, best_buy_price),
                    !.expected_profit_usd =
                        RMul(RDiv(net, RInt(10000)), RInt(target_notional))]
        reason == reject_reason(slippage, age, net, slow)
    IN
    CASE reason = "Slippage too high" ->
            <<[built EXCEPT !.reject_reason = reason]>>
      [] reason \in {"Orderbook too stale", "Net profit below threshold"} ->
            <<[aged EXCEPT !.reject_reason = reason]>>
      [] reason = "Detection too slow" ->
            <<[sized EXCEPT !.reject_reason = reason]>>
      [] OTHER -> <<[sized EXCEPT !.is_valid = TRUE]>>

InitGlobalArb ==
    /\ opportunities_last_minute_ = 0
    /\ last_opportunity_time_ = ArbStart
    /\ arb_clock = ArbStart
    /\ detections_ = [t \in {"t1", "t2"} |-> FALSE]
    /\ ndetections = 0

\* the maps of books and of timestamps a caller can pass
BookMaps ==
    UNION {[venues -> DOMAIN VenueBookKinds] : venues \in SUBSET Venues}

ArbInputs ==
    {[books |-> books, ages |-> ages, order |-> order, slow |-> slow] :
        books \in {b \in BookMaps :
                    \A v \in Venues :
                        IF v \in DOMAIN b THEN b[v] \in VenueBooks[v]
                        ELSE "absent" \in VenueBooks[v]},
        ages \in {a \in [Venues -> {-1, 0, 50 * TICKS_PER_MS + 1,
                                    51 * TICKS_PER_MS}] :
                    \A v \in Venues : a[v] \in VenueAges[v]},
        order \in IterationOrders, slow \in BOOLEAN}

\* the inputs of the two-thread specification: two venues 60 bps apart or
\* one venue alone, fresh, the call fast or slow
RacingInputs ==
    {in \in ArbInputs :
        /\ in.books \in {[BINANCE |-> "cheap", KRAKEN |-> "dear60"],
                         [BINANCE |-> "cheap"]}
        /\ \A v \in Venues : in.ages[v] = 0
        /\ in.order[1] = "BINANCE"}

\* one call of detect_global_best_opportunity by thread t, which then
\* holds the opportunity if it is valid
DetectGlobalBest(t, inputs, bound) ==
    \E in \in inputs :
        LET books == [v \in DOMAIN in.books |-> VenueBookKinds[in.books[v]]]
            timestamps == [v \in {w \in Venues : in.ages[w] >= 0} |->
                            arb_clock - in.ages[v]]
            opp == detect_global_best_opportunity(books, in.order,
                                                  timestamps, in.slow)
            fired == opp # <<>> /\ opp[1].is_valid
        IN  /\ ~detections_[t]
            /\ ndetections < bound
            /\ ndetections' = ndetections + 1
            /\ opportunities_last_minute_' =
                    IF fired THEN opportunities_last_minute_ + 1
                    ELSE opportunities_last_minute_
            /\ last_opportunity_time_' =
                    IF fired THEN arb_clock ELSE last_opportunity_time_
            /\ detections_' = [detections_ EXCEPT ![t] = fired]
            /\ last' = [op |-> "detect_global_best_opportunity",
                        thread |-> t, books |-> in.books, ages |-> in.ages,
                        order |-> in.order, slow |-> in.slow, opp |-> opp,
                        active_arbs |-> active_arbs_,
                        fired_before |-> opportunities_last_minute_,
                        quiet |-> arb_clock - last_opportunity_time_]
            /\ UNCHANGED <<engineVars, filterVars, arbVars, arb_clock, pairVars,
                       registryVars>>

\* on_arbitrage_executed, called by the thread that holds a valid
\* opportunity
OnArbitrageExecuted(t) ==
    /\ detections_[t]
    /\ active_arbs_' = active_arbs_ + 1
    /\ detections_' = [detections_ EXCEPT ![t] = FALSE]
    /\ last' = [op |-> "on_arbitrage_executed", thread |-> t]
    /\ UNCHANGED <<engineVars, filterVars, nupdates,
                   opportunities_last_minute_, last_opportunity_time_,
                   arb_clock, ndetections, pairVars,
                       registryVars>>

\* on_arbitrage_completed, called once for an arbitrage in flight
OnArbitrageCompleted ==
    /\ active_arbs_ > 0
    /\ active_arbs_' = active_arbs_ - 1
    /\ last' = [op |-> "on_arbitrage_completed"]
    /\ UNCHANGED <<engineVars, filterVars, nupdates, globalArbVars,
                   pairVars, registryVars>>

ArbTick ==
    \E advance \in ArbAdvances :
        /\ (arb_clock - ArbStart) \div (61000 * TICKS_PER_MS - 1) < MaxArbTicks
        /\ arb_clock' = arb_clock + advance
        /\ last' = [op |-> "tick", advance |-> advance]
        /\ UNCHANGED <<engineVars, filterVars, arbVars,
                       opportunities_last_minute_, last_opportunity_time_,
                       detections_, ndetections, pairVars,
                       registryVars>>

(***************************************************************************)
(* OrderBookImbalanceStrategy::analyze (order_book_imbalance.hpp).         *)
(***************************************************************************)
obi_config ==
    [num_levels |-> 5, imbalance_threshold |-> Rat(35, 100),
     min_volume_threshold |-> 10, target_profit_bps |-> 10,
     stop_loss_bps |-> 5]

\* the quantities resting on one side of a book, best level first
QtyLadders ==
    {<<>>, <<3>>, <<5>>, <<13>>, <<20>>, <<27>>, <<40>>, <<100>>, <<20, 7>>,
     <<5, 5, 5, 5, 5, 2>>, <<5, 5, 5, 5, 5, 5>>}

\* a book around 100 with these quantities on its levels
OBIBook(bid_qtys, ask_qtys) ==
    Book([i \in 1..Len(bid_qtys) |-> <<100 - i, bid_qtys[i]>>],
         [i \in 1..Len(ask_qtys) |-> <<100 + i, ask_qtys[i]>>])

get_mid_price(book) ==
    IF get_best_bid(book) = 0 \/ get_best_ask(book) = 0 THEN RZero
    ELSE Rat(get_best_bid(book) + get_best_ask(book), 2)

\* the quantity on the first num_levels levels from level i on
RECURSIVE top_volume(_, _)
top_volume(levels, i) ==
    IF i > Len(levels) \/ i > obi_config.num_levels THEN 0
    ELSE levels[i][2] + top_volume(levels, i + 1)

OBISignal ==
    [predicted_direction |-> "BUY", imbalance_ratio |-> RZero,
     confidence |-> RZero, entry_price |-> RZero, target_price |-> RZero,
     stop_price |-> RZero, is_valid |-> FALSE]

analyze(book) ==
    LET bid_volume == top_volume(book.bids, 1)
        ask_volume == top_volume(book.asks, 1)
        total_volume == bid_volume + ask_volume
        imbalance == Rat(bid_volume - ask_volume, total_volume)
        confidence == RMin(RDiv(RAbs(imbalance), Rat(7, 10)), RInt(1))
        mid == get_mid_price(book)
        up(bps) == RMul(mid, RAdd(RInt(1), Rat(bps, 10000)))
        down(bps) == RMul(mid, RSub(RInt(1), Rat(bps, 10000)))
    IN
    IF total_volume < obi_config.min_volume_threshold THEN OBISignal
    ELSE IF RLt(RAbs(imbalance), obi_config.imbalance_threshold)
    THEN [OBISignal EXCEPT !.imbalance_ratio = imbalance]
    ELSE IF RLt(obi_config.imbalance_threshold, imbalance)
    THEN [OBISignal EXCEPT
            !.imbalance_ratio = imbalance, !.predicted_direction = "BUY",
            !.confidence = confidence, !.entry_price = mid,
            !.target_price = up(obi_config.target_profit_bps),
            !.stop_price = down(obi_config.stop_loss_bps),
            !.is_valid = TRUE]
    ELSE IF RLt(imbalance, RSub(RZero, obi_config.imbalance_threshold))
    THEN [OBISignal EXCEPT
            !.imbalance_ratio = imbalance, !.predicted_direction = "SELL",
            !.confidence = confidence, !.entry_price = mid,
            !.target_price = down(obi_config.target_profit_bps),
            !.stop_price = up(obi_config.stop_loss_bps),
            !.is_valid = TRUE]
    ELSE [OBISignal EXCEPT !.imbalance_ratio = imbalance]

Analyze ==
    \E bid_qtys \in QtyLadders, ask_qtys \in QtyLadders :
        /\ last' = [op |-> "analyze", bid_qtys |-> bid_qtys,
                    ask_qtys |-> ask_qtys,
                    signal |-> analyze(OBIBook(bid_qtys, ask_qtys))]
        /\ UNCHANGED <<engineVars, filterVars, arbVars, strategyVars>>

(***************************************************************************)
(* RunningStats and PairsTradingStrategy (pairs_trading.hpp).  The ring of *)
(* ratios is the bounded queue that CircularBuffer implements.             *)
(***************************************************************************)
\* update_prices calls in one behaviour of a pair with the short lookback
MaxPairUpdates == 5

\* update_prices calls in one behaviour of a pair with the seeded lookback
MaxSeededUpdates == 20

\* the lookback periods a pair is constructed with
ShortLookback == 3

SeededLookback == 20

pair_config ==
    [entry_z_score |-> RInt(2), exit_z_score |-> Rat(3, 10),
     stop_loss_z_score |-> Rat(7, 2), position_size_usd |-> 5000]

\* twenty ratios with mean 20 and sample variance 4
SeedRatios ==
    <<17, 23, 18, 22, 19, 21, 17, 23, 18, 22, 19, 21, 17, 23, 19, 21,
      20, 20, 20, 20>>

seed(i) == SeedRatios[((i - 1) % Len(SeedRatios)) + 1]

RunningStats == [count_ |-> 0, mean_ |-> RZero, m2_ |-> RZero]

stats_push(stats, x) ==
    LET count == stats.count_ + 1
        delta == RSub(x, stats.mean_)
        mean == RAdd(stats.mean_, RDiv(delta, RInt(count)))
        delta2 == RSub(x, mean)
    IN  [count_ |-> count, mean_ |-> mean,
         m2_ |-> RAdd(stats.m2_, RMul(delta, delta2))]

\* a pop_front that divides by the count before the removal
stats_pop_front_old_count(stats, x) ==
    IF stats.count_ = 0 THEN stats
    ELSE IF stats.count_ = 1 THEN RunningStats
    ELSE LET count == stats.count_ - 1
             delta == RSub(x, stats.mean_)
             mean == RSub(stats.mean_, RDiv(delta, RInt(stats.count_)))
             delta2 == RSub(x, mean)
         IN  [count_ |-> count, mean_ |-> mean,
              m2_ |-> RSub(stats.m2_, RMul(delta, delta2))]

stats_pop_front(stats, x) ==
    IF stats.count_ = 0 THEN stats
    ELSE IF stats.count_ = 1 THEN RunningStats
    ELSE LET count == stats.count_ - 1
             delta == RSub(x, stats.mean_)
             mean == RSub(stats.mean_, RDiv(delta, RInt(count)))
             delta2 == RSub(x, mean)
         IN  [count_ |-> count, mean_ |-> mean,
              m2_ |-> RSub(stats.m2_, RMul(delta, delta2))]

variance(stats) ==
    IF stats.count_ > 1 THEN RDiv(stats.m2_, RInt(stats.count_ - 1))
    ELSE RZero

\* std::sqrt to two decimals: exact on the squares of such numbers
sqrt(x) ==
    Rat(CHOOSE k \in 0..1000 :
            /\ k * k * x.d <= x.n * 10000
            /\ (k + 1) * (k + 1) * x.d > x.n * 10000,
        100)

stddev(stats) == sqrt(variance(stats))

InitPair ==
    /\ lookback_period_ = 0
    /\ ratio_history_ = <<>>
    /\ stats_calculator_ = RunningStats
    /\ mean_ratio_ = RZero
    /\ std_ratio_ = RZero
    /\ npair_updates = 0

update_prices(price1, price2) ==
    LET ratio == Rat(price1, price2)
        full == Len(ratio_history_) = lookback_period_
        popped == IF full
                  THEN stats_pop_front(stats_calculator_, ratio_history_[1])
                  ELSE stats_calculator_
        pushed == stats_push(popped, ratio)
    IN  /\ ratio_history_' =
                Append(IF full THEN Tail(ratio_history_) ELSE ratio_history_,
                       ratio)
        /\ stats_calculator_' = pushed
        /\ mean_ratio_' = IF pushed.count_ >= 20 THEN pushed.mean_
                          ELSE mean_ratio_
        /\ std_ratio_' = IF pushed.count_ >= 20 THEN stddev(pushed)
                         ELSE std_ratio_

PairSignal ==
    [symbol1_side |-> "BUY", symbol2_side |-> "SELL", ratio |-> RZero,
     mean_ratio |-> RZero, std_ratio |-> RZero, z_score |-> RZero,
     entry_price1 |-> RZero, entry_price2 |-> RZero,
     target_price1 |-> RZero, target_price2 |-> RZero,
     stop_price1 |-> RZero, stop_price2 |-> RZero,
     expected_profit_bps |-> RZero, is_valid |-> FALSE]

generate_signal(current_price1, current_price2) ==
    LET current_ratio == Rat(current_price1, current_price2)
        measured == [PairSignal EXCEPT
                        !.ratio = current_ratio, !.mean_ratio = mean_ratio_,
                        !.std_ratio = std_ratio_]
        z_score == RDiv(RSub(current_ratio, mean_ratio_), std_ratio_)
        scored == [measured EXCEPT !.z_score = z_score]
        stop_distance == RMul(pair_config.stop_loss_z_score, std_ratio_)
        entered(side1, side2, stop_ratio) ==
            [scored EXCEPT
                !.symbol1_side = side1, !.symbol2_side = side2,
                !.entry_price1 = RInt(current_price1),
                !.entry_price2 = RInt(current_price2),
                !.target_price1 = RMul(mean_ratio_, RInt(current_price2)),
                !.target_price2 = RInt(current_price2),
                !.stop_price1 = RMul(stop_ratio, RInt(current_price2)),
                !.stop_price2 = RInt(current_price2),
                !.expected_profit_bps =
                    RMul(RAbs(RDiv(RSub(mean_ratio_, current_ratio),
                                   current_ratio)),
                         RInt(10000)),
                !.is_valid = TRUE]
    IN
    IF Len(ratio_history_) < lookback_period_ \div 2 THEN PairSignal
    ELSE IF RLt(std_ratio_, Rat(1, 1000000)) THEN measured
    ELSE IF RLt(RAbs(z_score), pair_config.entry_z_score) THEN scored
    ELSE IF RLt(pair_config.entry_z_score, z_score)
    THEN entered("SELL", "BUY", RAdd(mean_ratio_, stop_distance))
    ELSE IF RLt(z_score, RSub(RZero, pair_config.entry_z_score))
    THEN entered("BUY", "SELL", RSub(mean_ratio_, stop_distance))
    ELSE scored

PairFrame ==
    UNCHANGED <<engineVars, filterVars, arbVars, globalArbVars, registryVars>>

\* the constructor, with the lookback period of its Config
ConstructPair(lookback_period) ==
    /\ lookback_period_ = 0
    /\ lookback_period_' = lookback_period
    /\ last' = [op |-> "PairsTradingStrategy",
                lookback_period |-> lookback_period]
    /\ UNCHANGED <<ratio_history_, stats_calculator_, mean_ratio_,
                   std_ratio_, npair_updates>>
    /\ PairFrame

\* the prices of the next update: any of a few for the short lookback; the
\* next seed, or 20 again while every ratio so far was 20, for the seeded
PairPrices ==
    IF lookback_period_ = ShortLookback
    THEN {<<price1, price2>> : price1 \in {1, 2, 3}, price2 \in {1, 2}}
    ELSE {<<seed(npair_updates + 1), 1>> :
            x \in {y \in {1} : ratio_history_ = <<>>
                                \/ ratio_history_[1] # RInt(20)}}
         \cup {<<20, 1>> :
                x \in {y \in {1} : ratio_history_ = <<>>
                                    \/ ratio_history_[1] = RInt(20)}}

UpdatePrices ==
    \E prices \in PairPrices :
        /\ lookback_period_ > 0
        /\ npair_updates < IF lookback_period_ = ShortLookback
                           THEN MaxPairUpdates ELSE MaxSeededUpdates
        /\ npair_updates' = npair_updates + 1
        /\ update_prices(prices[1], prices[2])
        /\ last' = [op |-> "update_prices", price1 |-> prices[1],
                    price2 |-> prices[2]]
        /\ UNCHANGED lookback_period_
        /\ PairFrame

GenerateSignal ==
    \E current_price1 \in {15, 16, 22, 24, 25, 30, 32, 48, 50},
       current_price2 \in {1, 2} :
        /\ lookback_period_ > 0
        /\ last' = [op |-> "generate_signal",
                    current_price1 |-> current_price1,
                    current_price2 |-> current_price2,
                    signal |-> generate_signal(current_price1,
                                               current_price2)]
        /\ UNCHANGED pairVars
        /\ PairFrame

\* price1_history_ and price2_history_ are default-constructed deques; the
\* constructor does not name them
InitHistories ==
    /\ price1_history_ = <<>>
    /\ price2_history_ = <<>>

\* the sum of the first n prices of a history
RECURSIVE history_sum(_, _)
history_sum(history, n) ==
    IF n = 0 THEN RZero
    ELSE RAdd(history_sum(history, n - 1), RInt(history[n]))

\* the sum over the first n samples of (a[i] - mean_a) * (b[i] - mean_b)
RECURSIVE product_sum(_, _, _, _, _)
product_sum(a, mean_a, b, mean_b, n) ==
    IF n = 0 THEN RZero
    ELSE RAdd(product_sum(a, mean_a, b, mean_b, n - 1),
              RMul(RSub(RInt(a[n]), mean_a), RSub(RInt(b[n]), mean_b)))

\* calculate_correlation.  The value returned is 0.0 when insufficient or
\* degenerate, and numerator / sqrt(sum_sq1 * sum_sq2) otherwise; the
\* denominator is below 0.000001 exactly when its square times 1000000 is
calculate_correlation ==
    LET n == Min(Len(price1_history_), Len(price2_history_))
        mean1 == RDiv(history_sum(price1_history_, n), RInt(n))
        mean2 == RDiv(history_sum(price2_history_, n), RInt(n))
        numerator ==
            product_sum(price1_history_, mean1, price2_history_, mean2, n)
        sum_sq1 ==
            product_sum(price1_history_, mean1, price1_history_, mean1, n)
        sum_sq2 ==
            product_sum(price2_history_, mean2, price2_history_, mean2, n)
    IN
    IF Len(price1_history_) < 20 \/ Len(price2_history_) < 20
    THEN [insufficient |-> TRUE, degenerate |-> FALSE,
          numerator |-> RZero, sum_sq1 |-> RZero, sum_sq2 |-> RZero]
    ELSE [insufficient |-> FALSE,
          degenerate |-> RLt(RMul(RMul(sum_sq1, sum_sq2), RInt(1000000)),
                             Rat(1, 1000000)),
          numerator |-> numerator, sum_sq1 |-> sum_sq1,
          sum_sq2 |-> sum_sq2]

CalculateCorrelation ==
    /\ lookback_period_ > 0
    /\ last' = [op |-> "calculate_correlation",
                samples1 |-> Len(price1_history_),
                samples2 |-> Len(price2_history_),
                correlation |-> calculate_correlation]
    /\ UNCHANGED pairVars
    /\ PairFrame

(***************************************************************************)
(* SymbolRegistry (string_interning.hpp).  SymbolId is an unsigned integer *)
(* of SYMBOL_ID_BITS bits, sixteen in the source and fewer here, so that   *)
(* the counter wraps after a handful of registrations instead of 65536:    *)
(* ids are counted modulo 2^SYMBOL_ID_BITS.  Strings are numbered in the   *)
(* order of their first registration, so symbol_to_id_ is a sequence.      *)
(***************************************************************************)
\* register_symbol calls in one behaviour
MaxRegisterCalls == 10

\* the width of SymbolId
SYMBOL_ID_BITS == 3

INVALID_SYMBOL == 0

\* the value of a SymbolId after an increment or an assignment
SymbolId(i) == i % (2 ^ SYMBOL_ID_BITS)

InitRegistry ==
    /\ symbol_to_id_ = <<>>
    /\ id_to_symbol_ = <<>>
    /\ next_id_ = 1
    /\ nregistrations = 0

\* register_symbol of a string not registered yet: the string is number
\* Len(symbol_to_id_) + 1
register_new ==
    /\ symbol_to_id_' = Append(symbol_to_id_, next_id_)
    /\ id_to_symbol_' =
            IF next_id_ \in DOMAIN id_to_symbol_
            THEN [id_to_symbol_ EXCEPT ![next_id_] = Len(symbol_to_id_) + 1]
            ELSE (next_id_ :> Len(symbol_to_id_) + 1) @@ id_to_symbol_
    /\ next_id_' = SymbolId(next_id_ + 1)

register_symbol(symbol) ==
    IF symbol \in DOMAIN symbol_to_id_
    THEN UNCHANGED <<symbol_to_id_, id_to_symbol_, next_id_>>
    ELSE register_new

get_id(symbol) ==
    IF symbol \in DOMAIN symbol_to_id_ THEN symbol_to_id_[symbol]
    ELSE INVALID_SYMBOL

\* get_symbol: the string of an id, 0 for the empty string_view
get_symbol_of(id) ==
    IF id \in DOMAIN id_to_symbol_ THEN id_to_symbol_[id] ELSE 0

RegistryFrame ==
    UNCHANGED <<engineVars, filterVars, arbVars, globalArbVars, pairVars>>

\* one register_symbol call, of one of the first two strings or of a new one
RegisterSymbol ==
    \E symbol \in {1, 2, Len(symbol_to_id_) + 1} :
        /\ symbol <= Len(symbol_to_id_) + 1
        /\ nregistrations < MaxRegisterCalls
        /\ nregistrations' = nregistrations + 1
        /\ register_symbol(symbol)
        /\ last' = [op |-> "register_symbol", symbol |-> symbol,
                    registered |-> symbol \in DOMAIN symbol_to_id_,
                    before |-> get_id(symbol),
                    id |-> symbol_to_id_'[symbol]]
        /\ RegistryFrame

GetId ==
    \E symbol \in {1, Len(symbol_to_id_), Len(symbol_to_id_) + 1} :
        /\ symbol > 0
        /\ last' = [op |-> "get_id", symbol |-> symbol, id |-> get_id(symbol)]
        /\ UNCHANGED registryVars
        /\ RegistryFrame

GetSymbol ==
    \E id \in {INVALID_SYMBOL, 1, SymbolId(next_id_ + 2 ^ SYMBOL_ID_BITS - 1)} :
        /\ last' = [op |-> "get_symbol", id |-> id,
                    symbol |-> get_symbol_of(id)]
        /\ UNCHANGED registryVars
        /\ RegistryFrame

(***************************************************************************)
(* ErrorRateTracker (circuit_breaker.hpp).  Times are in ticks of the      *)
(* clock, TICKS_PER_SECOND to the second.                                  *)
(***************************************************************************)
\* ticks of the tracker's clock in one behaviour
MaxErrorTime == 8

\* record_error calls in one behaviour
MaxErrors == 4

\* ErrorRateTracker::Config, with a window of one second and a threshold of
\* two errors
error_config == [window |-> 1, threshold |-> 2]

InitErrors ==
    /\ error_times_ = <<>>
    /\ error_now = 0
    /\ recorded = <<>>

\* an error that record_error would erase already at an age of the window
outside_window_at_window(time, t) ==
    seconds(t - time) >= error_config.window

\* age > config_.window, the age in whole seconds
outside_window(time, t) == seconds(t - time) > error_config.window

\* the eviction loop of record_error: erase the front while it is outside
\* the window
RECURSIVE evict_old(_, _)
evict_old(times, t) ==
    IF times = <<>> THEN times
    ELSE IF outside_window(Head(times), t)
         THEN evict_old(Tail(times), t)
         ELSE times

record_error(times, t) == Append(evict_old(times, t), t)

threshold_exceeded(times) == Len(times) >= error_config.threshold

ErrorFrame ==
    UNCHANGED <<riskVars, fillVars, arbVars, killVars, breakerVars, now,
                breakerHistory, trackerVars, activationVars, filterVars,
                lockVars, ringVars, strategyVars, breakerStepVars,
                trackerLockVars, poolVars, historyVars>>

RecordError ==
    /\ Len(recorded) < MaxErrors
    /\ error_times_' = record_error(error_times_, error_now)
    /\ recorded' = Append(recorded, error_now)
    /\ last' = [op |-> "record_error", now |-> error_now]
    /\ UNCHANGED error_now
    /\ ErrorFrame

ThresholdExceeded ==
    /\ last' = [op |-> "threshold_exceeded", now |-> error_now,
                result |-> threshold_exceeded(error_times_)]
    /\ UNCHANGED errorVars
    /\ ErrorFrame

GetErrorCount ==
    /\ last' = [op |-> "get_error_count", now |-> error_now,
                result |-> Len(error_times_)]
    /\ UNCHANGED errorVars
    /\ ErrorFrame

\* the clock of the tracker advances
ErrorTick ==
    /\ error_now < MaxErrorTime
    /\ error_now' = error_now + 1
    /\ last' = [op |-> "tick"]
    /\ UNCHANGED <<error_times_, recorded>>
    /\ ErrorFrame

(***************************************************************************)
(* CircuitBreaker, each load, store, fetch_add and compare-exchange of a   *)
(* call a step of its own, with two threads calling.  Time is in units of  *)
(* 10 seconds, as above.                                                   *)
(***************************************************************************)
\* calls begun in one behaviour
MaxBreakerCalls == 5

\* the clock stops here
MaxBreakerTime == 7

\* no call in progress
NoBreakerCall == [pc |-> "idle", op |-> "none", t |-> 0, v |-> 0, epoch |-> 0]

InitBreakerCalls ==
    /\ breaker_calls = [t \in Threads |-> NoBreakerCall]
    /\ nbreaker_calls = 0
    /\ opened_at = 0
    /\ open_epoch = 0

BreakerStepFrame ==
    UNCHANGED <<riskVars, fillVars, arbVars, killVars, breakerHistory,
                trackerVars, activationVars, filterVars, lockVars, ringVars,
                strategyVars, errorVars, trackerLockVars, poolVars,
                historyVars, now>>

\* thread t goes on to pc
Goto(t, pc) ==
    /\ breaker_calls' = [breaker_calls EXCEPT ![t].pc = pc]
    /\ last' = [op |-> "step", thread |-> t]

\* thread t returns from its call
Return(t, result) ==
    /\ breaker_calls' = [breaker_calls EXCEPT ![t] = NoBreakerCall]
    /\ last' = [op |-> breaker_calls[t].op, thread |-> t, result |-> result,
                epoch |-> breaker_calls[t].epoch, at |-> now]

\* thread t enters open(), from a call that returns false afterwards
EnterOpen(t) ==
    /\ breaker_calls' = [breaker_calls EXCEPT ![t].pc = "open_load"]
    /\ last' = [op |-> "step", thread |-> t]

\* a call begins with state_.load(); in open() the load is `expected`
Begin(t) ==
    \E op \in {"allow_request", "record_success", "record_failure", "open"} :
        /\ breaker_calls[t].pc = "idle"
        /\ nbreaker_calls < MaxBreakerCalls
        /\ nbreaker_calls' = nbreaker_calls + 1
        /\ LET call == [NoBreakerCall EXCEPT !.op = op, !.epoch = open_epoch]
               to(pc) == /\ breaker_calls' =
                                [breaker_calls EXCEPT ![t] =
                                    [call EXCEPT !.pc = pc]]
                         /\ last' = [op |-> "step", thread |-> t]
               done(result) ==
                         /\ UNCHANGED breaker_calls
                         /\ last' = [op |-> op, thread |-> t,
                                     result |-> result, epoch |-> open_epoch,
                                     at |-> now]
           IN  CASE op = "allow_request" ->
                        IF state_ = "OPEN" THEN to("allow_now")
                        ELSE IF state_ = "HALF_OPEN" THEN to("allow_test")
                        ELSE done(TRUE)
                 [] op = "record_success" ->
                        IF state_ = "HALF_OPEN" THEN to("success_add")
                        ELSE IF state_ = "CLOSED" THEN to("success_load")
                        ELSE done(FALSE)
                 [] op = "record_failure" ->
                        IF state_ = "HALF_OPEN" THEN to("open_load")
                        ELSE IF state_ = "CLOSED" THEN to("failure_add")
                        ELSE done(FALSE)
                 [] op = "open" ->
                        IF state_ # "OPEN" THEN to("open_store")
                        ELSE done(FALSE)
        /\ UNCHANGED <<breakerVars, opened_at, open_epoch>>
        /\ BreakerStepFrame

\* allow_request in OPEN: now = Clock::now()
AllowNow(t) ==
    /\ breaker_calls[t].pc = "allow_now"
    /\ breaker_calls' = [breaker_calls EXCEPT ![t].pc = "allow_last",
                                              ![t].t = now]
    /\ last' = [op |-> "step", thread |-> t]
    /\ UNCHANGED <<breakerVars, nbreaker_calls, opened_at, open_epoch>>
    /\ BreakerStepFrame

\* allow_request in OPEN: last_failure_time_.load() and the timeout test
AllowLast(t) ==
    /\ breaker_calls[t].pc = "allow_last"
    /\ IF breaker_calls[t].t - last_failure_time_ >= config_.timeout
       THEN Goto(t, "allow_exchange")
       ELSE Return(t, FALSE)
    /\ UNCHANGED <<breakerVars, nbreaker_calls, opened_at, open_epoch>>
    /\ BreakerStepFrame

\* allow_request in OPEN: the compare-exchange to HALF_OPEN; true is returned
\* whether it succeeds or not
AllowExchange(t) ==
    /\ breaker_calls[t].pc = "allow_exchange"
    /\ IF state_ = "OPEN"
       THEN /\ state_' = "HALF_OPEN"
            /\ Goto(t, "allow_start")
       ELSE /\ UNCHANGED state_
            /\ Return(t, TRUE)
    /\ UNCHANGED <<failure_count_, success_count_, last_failure_time_,
                   half_open_start_, nbreaker_calls, opened_at, open_epoch>>
    /\ BreakerStepFrame

\* allow_request in OPEN: half_open_start_ = now
AllowStart(t) ==
    /\ breaker_calls[t].pc = "allow_start"
    /\ half_open_start_' = breaker_calls[t].t
    /\ Return(t, TRUE)
    /\ UNCHANGED <<state_, failure_count_, success_count_,
                   last_failure_time_, nbreaker_calls, opened_at, open_epoch>>
    /\ BreakerStepFrame

\* allow_request in HALF_OPEN: the test-period check
AllowTest(t) ==
    /\ breaker_calls[t].pc = "allow_test"
    /\ IF /\ now - half_open_start_ >= config_.test_period
          /\ success_count_ < config_.success_threshold
       THEN EnterOpen(t)
       ELSE Return(t, TRUE)
    /\ UNCHANGED <<breakerVars, nbreaker_calls, opened_at, open_epoch>>
    /\ BreakerStepFrame

\* open(): expected = state_.load()
OpenLoad(t) ==
    /\ breaker_calls[t].pc = "open_load"
    /\ IF state_ # "OPEN"
       THEN Goto(t, "open_store")
       ELSE Return(t, FALSE)
    /\ UNCHANGED <<breakerVars, nbreaker_calls, opened_at, open_epoch>>
    /\ BreakerStepFrame

\* open(): state_.store(OPEN)
OpenStore(t) ==
    /\ breaker_calls[t].pc = "open_store"
    /\ state_' = "OPEN"
    /\ IF state_ # "OPEN"
       THEN opened_at' = now /\ open_epoch' = open_epoch + 1
       ELSE UNCHANGED <<opened_at, open_epoch>>
    /\ Goto(t, "open_time")
    /\ UNCHANGED <<failure_count_, success_count_, last_failure_time_,
                   half_open_start_, nbreaker_calls>>
    /\ BreakerStepFrame

\* open(): last_failure_time_.store(Clock::now())
OpenTime(t) ==
    /\ breaker_calls[t].pc = "open_time"
    /\ last_failure_time_' = now
    /\ Return(t, FALSE)
    /\ UNCHANGED <<state_, failure_count_, success_count_, half_open_start_,
                   nbreaker_calls, opened_at, open_epoch>>
    /\ BreakerStepFrame

\* record_failure in CLOSED: failure_count_.fetch_add(1) and the threshold
FailureAdd(t) ==
    /\ breaker_calls[t].pc = "failure_add"
    /\ failure_count_' = failure_count_ + 1
    /\ IF failure_count_ + 1 >= config_.failure_threshold
       THEN EnterOpen(t)
       ELSE /\ breaker_calls' = [breaker_calls EXCEPT ![t] = NoBreakerCall]
            /\ last' = [op |-> "record_failure", thread |-> t,
                        result |-> FALSE, epoch |-> breaker_calls[t].epoch,
                        at |-> now, state |-> state_,
                        before |-> failure_count_,
                        after |-> failure_count_ + 1]
    /\ UNCHANGED <<state_, success_count_, last_failure_time_,
                   half_open_start_, nbreaker_calls, opened_at, open_epoch>>
    /\ BreakerStepFrame

\* record_success in HALF_OPEN: success_count_.fetch_add(1) and the threshold
SuccessAdd(t) ==
    /\ breaker_calls[t].pc = "success_add"
    /\ success_count_' = success_count_ + 1
    /\ IF success_count_ + 1 >= config_.success_threshold
       THEN Goto(t, "success_exchange")
       ELSE Return(t, FALSE)
    /\ UNCHANGED <<state_, failure_count_, last_failure_time_,
                   half_open_start_, nbreaker_calls, opened_at, open_epoch>>
    /\ BreakerStepFrame

\* record_success in HALF_OPEN: the compare-exchange to CLOSED
SuccessExchange(t) ==
    /\ breaker_calls[t].pc = "success_exchange"
    /\ IF state_ = "HALF_OPEN"
       THEN /\ state_' = "CLOSED"
            /\ Goto(t, "success_clear_failures")
       ELSE /\ UNCHANGED state_
            /\ Return(t, FALSE)
    /\ UNCHANGED <<failure_count_, success_count_, last_failure_time_,
                   half_open_start_, nbreaker_calls, opened_at, open_epoch>>
    /\ BreakerStepFrame

\* record_success in HALF_OPEN: failure_count_.store(0)
SuccessClearFailures(t) ==
    /\ breaker_calls[t].pc = "success_clear_failures"
    /\ failure_count_' = 0
    /\ Goto(t, "success_clear_successes")
    /\ UNCHANGED <<state_, success_count_, last_failure_time_,
                   half_open_start_, nbreaker_calls, opened_at, open_epoch>>
    /\ BreakerStepFrame

\* record_success in HALF_OPEN: success_count_.store(0)
SuccessClearSuccesses(t) ==
    /\ breaker_calls[t].pc = "success_clear_successes"
    /\ success_count_' = 0
    /\ Return(t, FALSE)
    /\ UNCHANGED <<state_, failure_count_, last_failure_time_,
                   half_open_start_, nbreaker_calls, opened_at, open_epoch>>
    /\ BreakerStepFrame

\* record_success in CLOSED: current = failure_count_.load()
SuccessLoad(t) ==
    /\ breaker_calls[t].pc = "success_load"
    /\ IF failure_count_ > 0
       THEN /\ breaker_calls' = [breaker_calls EXCEPT
                                    ![t].pc = "success_store",
                                    ![t].v = failure_count_]
            /\ last' = [op |-> "step", thread |-> t]
       ELSE /\ breaker_calls' = [breaker_calls EXCEPT ![t] = NoBreakerCall]
            /\ last' = [op |-> "record_success", thread |-> t,
                        result |-> FALSE, epoch |-> breaker_calls[t].epoch,
                        at |-> now, state |-> state_,
                        before |-> failure_count_, after |-> failure_count_]
    /\ UNCHANGED <<breakerVars, nbreaker_calls, opened_at, open_epoch>>
    /\ BreakerStepFrame

\* record_success in CLOSED: failure_count_.store(current - 1)
SuccessStore(t) ==
    /\ breaker_calls[t].pc = "success_store"
    /\ failure_count_' = breaker_calls[t].v - 1
    /\ breaker_calls' = [breaker_calls EXCEPT ![t] = NoBreakerCall]
    /\ last' = [op |-> "record_success", thread |-> t, result |-> FALSE,
                epoch |-> breaker_calls[t].epoch, at |-> now,
                state |-> state_, before |-> failure_count_,
                after |-> breaker_calls[t].v - 1]
    /\ UNCHANGED <<state_, success_count_, last_failure_time_,
                   half_open_start_, nbreaker_calls, opened_at, open_epoch>>
    /\ BreakerStepFrame

\* time passes between the steps
BreakerTick ==
    /\ now < MaxBreakerTime
    /\ now' = now + 1
    /\ last' = [op |-> "tick"]
    /\ UNCHANGED <<riskVars, fillVars, arbVars, killVars, breakerVars,
                   breakerHistory, trackerVars, activationVars, filterVars,
                   lockVars, ringVars, strategyVars, lateVars>>

BreakerStep(t) ==
    \/ Begin(t)
    \/ AllowNow(t)
    \/ AllowLast(t)
    \/ AllowExchange(t)
    \/ AllowStart(t)
    \/ AllowTest(t)
    \/ OpenLoad(t)
    \/ OpenStore(t)
    \/ OpenTime(t)
    \/ FailureAdd(t)
    \/ SuccessAdd(t)
    \/ SuccessExchange(t)
    \/ SuccessClearFailures(t)
    \/ SuccessClearSuccesses(t)
    \/ SuccessLoad(t)
    \/ SuccessStore(t)

(***************************************************************************)
(* OrderTracker, one thread looking orders up and one thread tracking      *)
(* orders, each acquisition and release of mutex_ a step of its own.       *)
(* get_order_by_exchange_id calls get_order with its shared lock held.     *)
(* Locking a std::shared_mutex the thread already owns is undefined: an    *)
(* implementation that lets readers in while a writer waits grants the     *)
(* second lock, one that queues readers behind a waiting writer blocks.    *)
(***************************************************************************)
\* lookups begun in one behaviour
MaxLookups == 2

\* n counts the lookups begun
NoLookup == [pc |-> "idle", op |-> "none", id |-> "", n |-> 0]

NoTrack == [pc |-> "idle"]

InitTrackerLock ==
    /\ tracker_mutex_ = [writer |-> FALSE, readers |-> 0, waiting |-> FALSE]
    /\ reader_thread = NoLookup
    /\ writer_thread = NoTrack

TrackerLockFrame ==
    UNCHANGED <<riskVars, fillVars, arbVars, killVars, breakerVars, now,
                breakerHistory, activationVars, filterVars, lockVars,
                ringVars, strategyVars, errorVars, breakerStepVars, poolVars,
                historyVars>>

\* get_order or get_order_by_exchange_id is called
LookupCall ==
    \E op \in {"get_order", "get_order_by_exchange_id"} :
        \E id \in (IF op = "get_order" THEN ClientIds ELSE ExchangeIds) :
            /\ reader_thread.pc = "idle"
            /\ reader_thread.n < MaxLookups
            /\ reader_thread' = [pc |-> "lock", op |-> op, id |-> id,
                                 n |-> reader_thread.n + 1]
            /\ last' = [op |-> "step"]
            /\ UNCHANGED <<trackerVars, tracker_mutex_, writer_thread>>
            /\ TrackerLockFrame

\* std::shared_lock<std::shared_mutex> lock(mutex_), by a thread that holds
\* no lock
LookupLock ==
    /\ reader_thread.pc = "lock"
    /\ ~tracker_mutex_.writer
    /\ tracker_mutex_' = [tracker_mutex_ EXCEPT !.readers = @ + 1]
    /\ reader_thread' = [reader_thread EXCEPT !.pc = "find"]
    /\ last' = [op |-> "step"]
    /\ UNCHANGED <<trackerVars, writer_thread>>
    /\ TrackerLockFrame

\* the lookup under the lock: get_order finds and returns;
\* get_order_by_exchange_id finds the client id and calls get_order
LookupFind ==
    /\ reader_thread.pc = "find"
    /\ IF reader_thread.op = "get_order"
       THEN reader_thread' = [reader_thread EXCEPT !.pc = "unlock"]
       ELSE IF reader_thread.id \in DOMAIN order_id_to_client_id_
       THEN reader_thread' = [reader_thread EXCEPT !.pc = "inner_lock"]
       ELSE reader_thread' = [reader_thread EXCEPT !.pc = "unlock"]
    /\ last' = [op |-> "step"]
    /\ UNCHANGED <<trackerVars, tracker_mutex_, writer_thread>>
    /\ TrackerLockFrame

\* the shared_lock of the get_order called by get_order_by_exchange_id,
\* granted
InnerLock ==
    /\ reader_thread.pc = "inner_lock"
    /\ ~tracker_mutex_.writer
    /\ tracker_mutex_' = [tracker_mutex_ EXCEPT !.readers = @ + 1]
    /\ reader_thread' = [reader_thread EXCEPT !.pc = "inner_unlock"]
    /\ last' = [op |-> "step"]
    /\ UNCHANGED <<trackerVars, writer_thread>>
    /\ TrackerLockFrame

\* the same shared_lock queued behind the waiting writer, which itself waits
\* for this thread's first lock
InnerBlock ==
    /\ reader_thread.pc = "inner_lock"
    /\ tracker_mutex_.waiting
    /\ reader_thread' = [reader_thread EXCEPT !.pc = "blocked"]
    /\ last' = [op |-> "step"]
    /\ UNCHANGED <<trackerVars, tracker_mutex_, writer_thread>>
    /\ TrackerLockFrame

\* get_order returns to get_order_by_exchange_id and releases its lock
InnerUnlock ==
    /\ reader_thread.pc = "inner_unlock"
    /\ tracker_mutex_' = [tracker_mutex_ EXCEPT !.readers = @ - 1]
    /\ reader_thread' = [reader_thread EXCEPT !.pc = "unlock"]
    /\ last' = [op |-> "step"]
    /\ UNCHANGED <<trackerVars, writer_thread>>
    /\ TrackerLockFrame

\* the lookup returns and releases its lock
LookupUnlock ==
    /\ reader_thread.pc = "unlock"
    /\ tracker_mutex_' = [tracker_mutex_ EXCEPT !.readers = @ - 1]
    /\ reader_thread' = [NoLookup EXCEPT !.n = reader_thread.n]
    /\ last' = [op |-> reader_thread.op, id |-> reader_thread.id,
                result |-> IF reader_thread.op = "get_order"
                           THEN get_order(Tracker, reader_thread.id)
                           ELSE get_order_by_exchange_id(Tracker,
                                                         reader_thread.id)]
    /\ UNCHANGED <<trackerVars, writer_thread>>
    /\ TrackerLockFrame

\* track_order is called and waits for the exclusive lock
TrackCall ==
    \E order \in OrdersAt(now) :
        /\ writer_thread.pc = "idle"
        /\ ntracks < MaxTracks
        /\ writer_thread' = [pc |-> "lock", order |-> order]
        /\ tracker_mutex_' = [tracker_mutex_ EXCEPT !.waiting = TRUE]
        /\ last' = [op |-> "step"]
        /\ UNCHANGED <<trackerVars, reader_thread>>
        /\ TrackerLockFrame

\* std::unique_lock<std::shared_mutex> lock(mutex_)
TrackLock ==
    /\ writer_thread.pc = "lock"
    /\ ~tracker_mutex_.writer
    /\ tracker_mutex_.readers = 0
    /\ tracker_mutex_' = [tracker_mutex_ EXCEPT !.writer = TRUE,
                                                !.waiting = FALSE]
    /\ writer_thread' = [writer_thread EXCEPT !.pc = "locked"]
    /\ last' = [op |-> "step"]
    /\ UNCHANGED <<trackerVars, reader_thread>>
    /\ TrackerLockFrame

\* track_order under the exclusive lock, and the release
TrackUnlock ==
    \E evicted \in oldest(Tracker, OVERFLOW_EVICTIONS) :
        /\ writer_thread.pc = "locked"
        /\ track_order(writer_thread.order, evicted)
        /\ ntracks' = ntracks + 1
        /\ tracker_mutex_' = [tracker_mutex_ EXCEPT !.writer = FALSE]
        /\ writer_thread' = NoTrack
        /\ last' = [op |-> "track_order", order |-> writer_thread.order]
        /\ UNCHANGED <<norder_updates, reader_thread>>
        /\ TrackerLockFrame

(***************************************************************************)
(* ObjectPool (memory_pool.hpp).  allocate and deallocate each run under   *)
(* the pool's mutex from the first statement to the last, so each call is  *)
(* one step, taken by either thread.  An object is its number: block b     *)
(* holds the objects (b - 1) * BlockSize + 1 .. b * BlockSize.             *)
(***************************************************************************)
\* the template parameter BlockSize, scaled down from 1024
BlockSize == 2

\* aligned_alloc fails once there are this many blocks
MaxBlocks == 2

\* allocate and deallocate calls in one behaviour
MaxPoolCalls == 6

nullptr == 0

\* allocate_block: a new block, its objects appended to all_objects_ and to
\* the free list
allocate_block(pool) ==
    LET block == Len(pool.blocks) + 1
        objects == [i \in 1..BlockSize |-> (block - 1) * BlockSize + i]
    IN  [blocks |-> Append(pool.blocks, block),
         all_objects |-> pool.all_objects \o objects,
         free_list |-> pool.free_list \o objects]

NoPool == [blocks |-> <<>>, all_objects |-> <<>>, free_list |-> <<>>]

\* ObjectPool(): the first block is allocated at construction
InitPool ==
    /\ blocks_ = allocate_block(NoPool).blocks
    /\ all_objects_ = allocate_block(NoPool).all_objects
    /\ free_list_ = allocate_block(NoPool).free_list
    /\ handed_out = [t \in Threads |-> {}]
    /\ npool_calls = 0

Pool == [blocks |-> blocks_, all_objects |-> all_objects_,
         free_list |-> free_list_]

\* a pop_back that leaves the object in the free list
free_list_pop_back_kept(list) == list

\* free_list_.pop_back()
free_list_pop_back(list) == SubSeq(list, 1, Len(list) - 1)

\* ObjectPool::allocate: the pool afterwards and the object returned
allocate(pool) ==
    LET grown == IF pool.free_list = <<>> THEN allocate_block(pool) ELSE pool
        obj == grown.free_list[Len(grown.free_list)]
    IN  [pool |-> [grown EXCEPT !.free_list = free_list_pop_back(@)],
         obj |-> obj]

\* ObjectPool::deallocate
deallocate(pool, obj) ==
    IF obj = nullptr THEN pool
    ELSE [pool EXCEPT !.free_list = Append(@, obj)]

total_allocated(pool) == Len(pool.all_objects)

available(pool) == Len(pool.free_list)

in_use(pool) == Len(pool.all_objects) - Len(pool.free_list)

PoolFrame ==
    UNCHANGED <<riskVars, fillVars, arbVars, killVars, breakerVars, now,
                breakerHistory, trackerVars, activationVars, filterVars,
                lockVars, ringVars, strategyVars, errorVars, breakerStepVars,
                trackerLockVars, historyVars>>

\* thread t allocates; when the free list is empty and no block can be had,
\* allocate_block throws before anything is changed
Allocate(t) ==
    /\ npool_calls < MaxPoolCalls
    /\ npool_calls' = npool_calls + 1
    /\ IF free_list_ = <<>> /\ Len(blocks_) >= MaxBlocks
       THEN /\ UNCHANGED <<blocks_, all_objects_, free_list_, handed_out>>
            /\ last' = [op |-> "allocate", thread |-> t, thrown |-> TRUE,
                        total_before |-> total_allocated(Pool)]
       ELSE LET result == allocate(Pool)
            IN  /\ blocks_' = result.pool.blocks
                /\ all_objects_' = result.pool.all_objects
                /\ free_list_' = result.pool.free_list
                /\ handed_out' =
                        [handed_out EXCEPT ![t] = @ \cup {result.obj}]
                /\ last' = [op |-> "allocate", thread |-> t,
                            thrown |-> FALSE, obj |-> result.obj,
                            held_before |-> UNION {handed_out[u] : u \in Threads},
                            total_before |-> total_allocated(Pool)]
    /\ PoolFrame

\* thread t returns an object it holds, or passes a null pointer
Deallocate(t) ==
    \E obj \in handed_out[t] \cup {nullptr} :
        /\ npool_calls < MaxPoolCalls
        /\ npool_calls' = npool_calls + 1
        /\ LET pool == deallocate(Pool, obj)
           IN  /\ blocks_' = pool.blocks
               /\ all_objects_' = pool.all_objects
               /\ free_list_' = pool.free_list
        /\ handed_out' = [handed_out EXCEPT ![t] = @ \ {obj}]
        /\ last' = [op |-> "deallocate", thread |-> t, obj |-> obj,
                    total_before |-> total_allocated(Pool)]
        /\ PoolFrame

(***************************************************************************)
(* Specifications.                                                         *)
(***************************************************************************)
Init ==
    /\ InitRisk
    /\ active_arbs_ = 0
    /\ nupdates = 0
    /\ InitFilter
    /\ InitRing
    /\ InitLocked
    /\ InitKill
    /\ InitActivations
    /\ InitBreaker
    /\ InitTracker
    /\ InitGlobalArb
    /\ InitPair
    /\ InitRegistry
    /\ InitErrors
    /\ InitBreakerCalls
    /\ InitTrackerLock
    /\ InitPool
    /\ InitHistories
    /\ last = NoCall

\* the risk engine under fills, marks, daily resets and pre-trade checks
NextRisk ==
    \/ OnFill(MaxFills, Fills)
    \/ UpdateMarketPrices
    \/ ResetDaily
    \/ CheckOrder

SpecRisk == Init /\ [][NextRisk]_vars

\* longer runs of small fills, with marks and daily resets in between
NextFills ==
    \/ OnFill(MaxSmallFills, SmallFills)
    \/ UpdateMarketPrices
    \/ ResetDaily

SpecFills == Init /\ [][NextFills]_vars

\* pre-trade checks over books that large fills and the marks have shaped
NextCheck ==
    \/ OnFill(MaxCheckFills, LargeFills)
    \/ UpdateMarketPrices
    \/ ResetDaily
    \/ CheckOrder

SpecCheck == Init /\ [][NextCheck]_vars

\* the coordinator over a book that one fill and the marks have shaped
NextCoord ==
    \/ OnFill(MaxCoordFills, CoordFills)
    \/ UpdateMarketPrices
    \/ ProcessMarketUpdate
    \/ CompleteArbitrage

SpecCoord == Init /\ [][NextCoord]_vars

\* pre-trade checks next to the kill switch and the breaker
NextGate ==
    \/ OnFill(MaxCoordFills, CoordFills)
    \/ UpdateMarketPrices
    \/ CheckOrder
    \/ Activate
    \/ Reset
    \/ RecordFailure
    \/ RecordSuccess
    \/ AllowRequest

SpecGate == Init /\ [][NextGate]_vars

\* the breaker alone, with time passing
NextBreaker ==
    \/ AllowRequest
    \/ RecordSuccess
    \/ RecordFailure
    \/ ForceOpen
    \/ Close
    \/ Tick(MaxTime)

SpecBreaker == Init /\ [][NextBreaker]_vars

\* the order tracker, with time passing
NextTracker ==
    \/ TrackOrder
    \/ UpdateOrder
    \/ CleanupCompleted
    \/ Tick(MaxTrackerTime)

SpecTracker == Init /\ [][NextTracker]_vars

\* the tracker under orders that are open or filled, to follow what leaves
NextCleanup ==
    \/ TrackOrderFrom(OpenOrFilledAt(now))
    \/ UpdateOrderFrom(OpenOrFilledAt(now))
    \/ CleanupCompleted
    \/ Tick(MaxTrackerTime)

SpecCleanup == Init /\ [][NextCleanup]_vars

\* the kill switch activated from several threads, with no reset
NextKill ==
    \/ \E t \in Threads : ActivateCall(t)
    \/ \E t \in Threads : ActivateReason(t)
    \/ \E t \in Threads : ActivateLock(t)
    \/ \E t \in Threads : ActivateHandler(t)
    \/ \E t \in Threads : ActivateReturn(t)
    \/ RegisterUnderLock

SpecKill == Init /\ [][NextKill]_vars

\* fills routed through the coordinator, next to fills given to the risk
\* engine directly
NextRouting ==
    \/ CoordinatorOnFill
    \/ OnFill(MaxCoordFills, CoordFills)

SpecRouting == Init /\ [][NextRouting]_vars

\* the coordinator under updates that carry arbitrage and pairs candidates
NextLegs ==
    \/ OnFill(MaxCoordFills, CoordFills)
    \/ UpdateMarketPrices
    \/ ProcessTwoLegUpdate
    \/ CompleteArbitrage

SpecLegs == Init /\ [][NextLegs]_vars

\* the coordinator under a run of arbitrage candidates, none of them
\* completed
NextArbTicks ==
    \/ OnFill(MaxCoordFills, CoordFills)
    \/ UpdateMarketPrices
    \/ ProcessArbUpdate

SpecArbTicks == Init /\ [][NextArbTicks]_vars

\* the risk engine given malformed fills among well-formed ones
NextInvalid ==
    \/ OnFill(MaxInvalidFills, InvalidFills \cup SmallFills)
    \/ UpdateMarketPrices

SpecInvalid == Init /\ [][NextInvalid]_vars

\* on_fill on one thread and check_order on another, sharing mutex_
NextLocked ==
    \/ FillLock
    \/ FillOpen
    \/ FillRealized
    \/ FillQuantity
    \/ FillDaily
    \/ FillReturn
    \/ CheckLock
    \/ CheckPnl
    \/ CheckReturn

SpecLocked == Init /\ [][NextLocked]_vars

\* the circular buffer under pushes, pops and clears
NextRing ==
    \/ PushBack
    \/ PopFront
    \/ Clear

SpecRing == Init /\ [][NextRing]_vars

\* the global-best latency arbitrage called by one thread
NextGlobalArb ==
    \/ DetectGlobalBest("t1", ArbInputs, MaxDetections)
    \/ OnArbitrageExecuted("t1")
    \/ OnArbitrageCompleted
    \/ ArbTick

SpecGlobalArb == Init /\ [][NextGlobalArb]_vars

\* two threads detecting, executing and completing arbitrages
NextRacing ==
    \/ \E t \in Threads : DetectGlobalBest(t, RacingInputs, MaxRacingDetections)
    \/ \E t \in Threads : OnArbitrageExecuted(t)
    \/ OnArbitrageCompleted

SpecRacing == Init /\ [][NextRacing]_vars

\* the adverse-selection filter: fills, prices and toxicity calculations
NextFilter ==
    \/ RecordFill
    \/ UpdateCurrentPrice
    \/ CalculateToxicityLoad
    \/ CalculateToxicityRecalculate
    \/ FilterTick

SpecFilter == Init /\ [][NextFilter]_vars

\* the order-book imbalance analysis of one book after another
NextImbalance == Analyze

SpecImbalance == Init /\ [][NextImbalance]_vars

\* a pair with a lookback of three under any prices
NextStats ==
    \/ ConstructPair(ShortLookback)
    \/ UpdatePrices

SpecStats == Init /\ [][NextStats]_vars

\* a pair with a lookback of twenty, seeded and asked for signals
NextPairs ==
    \/ ConstructPair(SeededLookback)
    \/ UpdatePrices
    \/ GenerateSignal

SpecPairs == Init /\ [][NextPairs]_vars

\* the same pair, asked for its correlation as well
NextCorrelation ==
    \/ ConstructPair(SeededLookback)
    \/ UpdatePrices
    \/ GenerateSignal
    \/ CalculateCorrelation

SpecCorrelation == Init /\ [][NextCorrelation]_vars

\* the symbol registry under registrations and lookups
NextRegistry ==
    \/ RegisterSymbol
    \/ GetId
    \/ GetSymbol

SpecRegistry == Init /\ [][NextRegistry]_vars

\* the error-rate tracker under errors, queries and the passing of time
NextErrors ==
    \/ RecordError
    \/ ThresholdExceeded
    \/ GetErrorCount
    \/ ErrorTick

SpecErrors == Init /\ [][NextErrors]_vars

\* two threads calling the circuit breaker while time passes
NextBreakerThreads ==
    \/ \E t \in Threads : BreakerStep(t)
    \/ BreakerTick

SpecBreakerThreads == Init /\ [][NextBreakerThreads]_vars

\* the order tracker with a thread looking up and a thread tracking
NextTrackerLock ==
    \/ LookupCall
    \/ LookupLock
    \/ LookupFind
    \/ InnerLock
    \/ InnerBlock
    \/ InnerUnlock
    \/ LookupUnlock
    \/ TrackCall
    \/ TrackLock
    \/ TrackUnlock

SpecTrackerLock == Init /\ [][NextTrackerLock]_vars

\* the object pool used by two threads
NextPool ==
    \/ \E t \in Threads : Allocate(t)
    \/ \E t \in Threads : Deallocate(t)

SpecPool == Init /\ [][NextPool]_vars

(***************************************************************************)
(* Claims about the risk and position engine.                              *)
(***************************************************************************)
FillStep == nfills' = nfills + 1

\* C3: for every symbol the position quantity equals the sum of the signed
\* fill quantities within epsilon after any sequence of fills, and
\* reset_daily and update_market_prices do not change it.
C3_QuantityIsSumOfFills ==
    [][/\ \A s \in Symbols :
              Abs(position_of(positions_', s).quantity - fill_sum'[s]) <= EPS
       /\ last'.op \in {"reset_daily", "update_market_prices"} =>
              \A s \in Symbols :
                  position_of(positions_', s).quantity =
                      position_of(positions_, s).quantity]_vars

\* fills below the flat threshold have moved a position away from their sum
C3_Drifted ==
    \E s \in Symbols :
        Abs(position_of(positions_, s).quantity - fill_sum[s]) > EPS

\* a fill against a position of the other sign and of smaller size
flips(pos, fill) ==
    /\ ~is_flat(pos)
    /\ pos.quantity * signed_quantity(fill) < 0
    /\ Abs(signed_quantity(fill)) > Abs(pos.quantity)

\* C4: a fill larger than the opposite-signed open position is a close plus
\* an open of the residual: realized P&L grows by
\* |previous quantity| x (fill.price - avg_price) x sign(previous quantity)
\* - fee, and the residual position has avg_price = fill.price.
C4_FlipClosesThenOpens ==
    [][FillStep =>
        LET fill == last'.fill
            pos == position_of(positions_, fill.symbol)
            after == positions_'[fill.symbol]
            sign == IF pos.quantity > 0 THEN 1 ELSE -1
            delta == RSub(RMul(RInt(Abs(pos.quantity) * sign),
                               RSub(RInt(fill.price), pos.avg_price)),
                          RInt(fill.fee))
        IN  flips(pos, fill) =>
              /\ after.realized_pnl = RAdd(pos.realized_pnl, delta)
              /\ after.quantity = pos.quantity + signed_quantity(fill)
              /\ after.avg_price = RInt(fill.price)]_vars

\* a position whose sign a single fill has just flipped
C4_Flipped ==
    /\ last.op = "on_fill"
    /\ positions_[last.fill.symbol].quantity * signed_quantity(last.fill) > 0
    /\ Abs(positions_[last.fill.symbol].quantity)
           < Abs(signed_quantity(last.fill))
    /\ ~is_flat(positions_[last.fill.symbol])
    /\ positions_[last.fill.symbol].avg_price # RInt(last.fill.price)

\* the total P&L of the claims: daily realized plus the unrealized P&L of
\* every position
TotalPnl(positions, realized) ==
    LET RECURSIVE Sum(_)
        Sum(S) == IF S = {} THEN RZero
                  ELSE LET s == CHOOSE x \in S : TRUE
                       IN  RAdd(positions[s].unrealized_pnl, Sum(S \ {s}))
    IN  RAdd(realized, Sum(DOMAIN positions))

\* C6: after every update_market_prices and after every on_fill that changes
\* realized P&L, peak_daily_pnl >= total_pnl; and peak_daily_pnl never
\* decreases except through reset_daily.
C6_PeakCoversTotal ==
    [][/\ \/ last'.op = "update_market_prices"
          \/ FillStep /\ daily_realized_pnl_' # daily_realized_pnl_
          => RLe(TotalPnl(positions_', daily_realized_pnl_'),
                 peak_daily_pnl_')
       /\ last'.op # "reset_daily" =>
              RLe(peak_daily_pnl_, peak_daily_pnl_')]_vars

\* the six pre-trade checks, in the order of the specification: which of
\* them the order fails in the current state
CheckFails(order, current_price) ==
    LET pnl == TotalPnl(positions_, daily_realized_pnl_)
        pos == position_of(positions_, order.symbol)
        new_qty == pos.quantity + signed_quantity(order)
        new_notional == Abs(new_qty * current_price)
        cur_notional == Abs(pos.quantity * current_price)
        gross == calculate_total_gross_exposure(positions_)
        reduces == \/ is_long(pos) /\ order.side = "SELL"
                   \/ is_short(pos) /\ order.side = "BUY"
        contribution == IF reduces THEN Max(0, new_notional - cur_notional)
                        ELSE order.quantity * order.price
    IN  <<RLt(pnl, RInt(-limits_.max_daily_loss)),
          RLt(RMul(RInt(limits_.max_daily_loss), limits_.trailing_stop_pct),
              RSub(peak_daily_pnl_, pnl)),
          order.quantity * order.price > limits_.max_order_size,
          new_notional > limits_.max_position_per_symbol,
          gross + contribution > limits_.max_total_gross_exposure,
          /\ gross + contribution > 0
          /\ new_notional * limits_.max_single_symbol_pct.d
                 > limits_.max_single_symbol_pct.n * (gross + contribution)>>

CheckReasons ==
    <<"Daily loss limit exceeded", "Trailing stop hit",
      "Order size exceeds limit", "Symbol position limit exceeded",
      "Total gross exposure limit exceeded", "Concentration limit exceeded">>

\* C5: check_order returns (false, reason) for the first of the six checks,
\* taken in the fixed order, that fails, and (true) only when all six pass;
\* whenever realized + unrealized P&L < -loss_cap it returns
\* (false, "Daily loss limit exceeded") whatever the order is.
C5_FirstFailingCheck ==
    last.op = "check_order" =>
        LET fails == CheckFails(last.order, last.current_price)
            failing == {i \in 1..6 : fails[i]}
            first == CHOOSE i \in failing : \A j \in failing : i <= j
        IN  /\ failing = {} => last.result = [passed |-> TRUE, reason |-> ""]
            /\ failing # {} =>
                   last.result =
                       [passed |-> FALSE, reason |-> CheckReasons[first]]
            /\ RLt(TotalPnl(positions_, daily_realized_pnl_),
                   RInt(-limits_.max_daily_loss)) =>
                   last.result = [passed |-> FALSE,
                                  reason |-> "Daily loss limit exceeded"]

\* an order that is over the order-size limit is rejected for the daily loss
C5_DailyLossFirst ==
    /\ last.op = "check_order"
    /\ last.result.reason = "Daily loss limit exceeded"
    /\ CheckFails(last.order, last.current_price)[3]

(***************************************************************************)
(* Claims about the order tracker.                                         *)
(***************************************************************************)
\* C2: after any sequence of track_order, update_order and cleanup_completed
\* calls, a client id is in the active set if and only if it is in the order
\* map with a stored status of NEW or PARTIALLY_FILLED, and
\* get_active_orders returns exactly those orders.
C2_ActiveSetMatchesStatus ==
    /\ \A c \in ClientIds :
           c \in active_orders_ <=>
               c \in DOMAIN orders_ /\ is_active(orders_[c])
    /\ get_active_orders =
           {orders_[c] : c \in {x \in DOMAIN orders_ : is_active(orders_[x])}}

\* a client id tracked as active and tracked again as not active
C2_Retracked ==
    /\ last.op = "track_order"
    /\ ~is_active(last.order)
    /\ last.order.client_order_id \in active_orders_

(***************************************************************************)
(* Claims about the coordinator.                                           *)
(***************************************************************************)
SameOrder(a, b) ==
    /\ a.symbol = b.symbol
    /\ a.side = b.side
    /\ a.quantity = b.quantity
    /\ a.price = b.price

\* C1: every order process_market_update returns was itself submitted to
\* check_order, with the same symbol, side, quantity and price, and that
\* check passed; an OBI order is returned only if check_order on that OBI
\* order passes.
C1_ReturnedOrdersPassedCheck ==
    last.op = "process_market_update" =>
        \A i \in 1..Len(last.orders) :
            /\ \E j \in 1..Len(last.checks) :
                   /\ SameOrder(last.checks[j].order, last.orders[i])
                   /\ last.checks[j].result.passed
            /\ last.orders[i].strategy_name = "OBI" =>
                   check_order(positions_, daily_realized_pnl_,
                               peak_daily_pnl_, last.orders[i],
                               last.current_price).passed

\* an OBI order has been returned that check_order rejects
C1_ObiOrderUnchecked ==
    /\ last.op = "process_market_update"
    /\ \E i \in 1..Len(last.orders) :
           /\ last.orders[i].strategy_name = "OBI"
           /\ ~check_order(positions_, daily_realized_pnl_, peak_daily_pnl_,
                           last.orders[i], last.current_price).passed

(***************************************************************************)
(* Claims about the kill switch and the circuit breaker.                   *)
(***************************************************************************)
\* C7: check_order never returns passed while the kill switch is latched
\* or the circuit breaker is OPEN.
C7_NoPassWhileHalted ==
    /\ last.op = "check_order"
    /\ activated_ \/ state_ = "OPEN"
    => ~last.result.passed

\* check_order has passed an order with the kill switch latched
C7_PassedWhileLatched ==
    /\ last.op = "check_order"
    /\ activated_
    /\ last.result.passed

\* C8: from CLOSED with zero counts, failure_threshold consecutive
\* record_failure calls put the breaker in OPEN; allow_request then returns
\* false until timeout has elapsed since the last failure; the first
\* allow_request after that returns true and moves the breaker to
\* HALF_OPEN; success_threshold record_success calls then return it to
\* CLOSED with both counts at zero.
C8_BreakerCycle ==
    /\ cycle.phase = "open" =>
           /\ state_ = "OPEN"
           /\ last.op = "allow_request" => last.result = FALSE
    /\ cycle.phase = "testing" /\ cycle.n = 0 =>
           /\ state_ = "HALF_OPEN"
           /\ last.op = "allow_request" => last.result = TRUE
    /\ cycle.phase = "closed" =>
           /\ state_ = "CLOSED"
           /\ failure_count_ = 0
           /\ success_count_ = 0

\* the whole cycle has been gone through
C8_CycleCompleted ==
    /\ cycle.phase = "closed"
    /\ last.op = "record_success"
    /\ last.from = "HALF_OPEN"

BreakerCalls ==
    {"allow_request", "record_success", "record_failure", "open", "close"}

\* C9: the breaker moves from HALF_OPEN to CLOSED only when at least
\* success_threshold successes have been recorded during the current
\* half-open test and before test_period expires.
C9_ClosedByTestSuccesses ==
    /\ last.op \in BreakerCalls \ {"close"}
    /\ last.from = "HALF_OPEN"
    /\ state_ = "CLOSED"
    => /\ test_successes >= config_.success_threshold
       /\ now - test_entered < config_.test_period

\* the breaker has closed on fewer successes than the threshold in its test
C9_ClosedOnStaleCount ==
    /\ last.op = "record_success"
    /\ last.from = "HALF_OPEN"
    /\ state_ = "CLOSED"
    /\ test_successes < config_.success_threshold

\* C10: in HALF_OPEN any record_failure moves the breaker to OPEN and
\* records the failure time; and once test_period has elapsed since
\* entering HALF_OPEN with fewer than success_threshold successes, the next
\* allow_request returns false and leaves the breaker OPEN.
C10_FailedTestReopens ==
    /\ last.op = "record_failure" /\ last.from = "HALF_OPEN" =>
           /\ state_ = "OPEN"
           /\ last_failure_time_ = now
    /\ /\ last.op = "allow_request"
       /\ last.from = "HALF_OPEN"
       /\ now - test_entered >= config_.test_period
       /\ test_successes < config_.success_threshold
       => /\ last.result = FALSE
          /\ state_ = "OPEN"

\* a half-open test has run out of time and the breaker has opened again
C10_TestExpired ==
    /\ last.op = "allow_request"
    /\ last.from = "HALF_OPEN"
    /\ now - test_entered >= config_.test_period
    /\ test_successes < config_.success_threshold
    /\ state_ = "OPEN"
    /\ last_failure_time_ = now

IsPrefix(s, t) == Len(s) <= Len(t) /\ SubSeq(t, 1, Len(s)) = s

NoActivationRunning == \A t \in Threads : activations_[t].pc = "idle"

\* C11: with no reset, the handlers are invoked at most once each and in
\* registration order, and once the activation that set the latch is over,
\* every handler registered before it has been invoked, whether or not an
\* earlier handler threw.
C11_EveryHandlerRunsOnce ==
    /\ IsPrefix(handler_calls, shutdown_handlers_)
    /\ (activated_ /\ NoActivationRunning)
           => IsPrefix(registered_first_, handler_calls)

\* an activation over, left by an exception, with a handler never invoked
C11_HandlerSkipped ==
    /\ activated_
    /\ NoActivationRunning
    /\ last.op = "handler"
    /\ Len(handler_calls) < Len(registered_first_)

\* C12: after every track_order and update_order call, every stored order
\* has filled_quantity + remaining_quantity = quantity, and an update_order
\* call never replaces a stored terminal status by a non-terminal one.
C12_QuantitiesAndTerminalStatus ==
    [][(last'.op \in {"track_order", "update_order"}) =>
           /\ \A c \in DOMAIN orders_' :
                  orders_'[c].filled_quantity + orders_'[c].remaining_quantity
                      = orders_'[c].quantity
           /\ (last'.op = "update_order") =>
                  \A c \in DOMAIN orders_ \cap DOMAIN orders_' :
                      is_complete(orders_[c]) => is_complete(orders_'[c])]_vars

\* a stored order whose filled and remaining quantities do not add up
C12_Unbalanced ==
    /\ last.op \in {"track_order", "update_order"}
    /\ \E c \in DOMAIN orders_ :
           orders_[c].filled_quantity + orders_[c].remaining_quantity
               # orders_[c].quantity

\* C13: an order tracked without an exchange id is returned by get_order
\* under its client id, and once update_order has stored the acknowledged
\* order with its exchange id, get_order_by_exchange_id of that id returns
\* the order and get_symbol of that id returns its symbol.
C13_DualKeyLookup ==
    [][/\ (last'.op = "track_order" /\ last'.order.order_id = "") =>
              get_order(Tracker', last'.order.client_order_id)
                  = <<last'.order>>
       /\ (/\ last'.op = "update_order"
           /\ last'.order.client_order_id \in DOMAIN orders_
           /\ orders_[last'.order.client_order_id].order_id = ""
           /\ last'.order.order_id # "") =>
              /\ get_order_by_exchange_id(Tracker', last'.order.order_id)
                     = <<last'.order>>
              /\ get_symbol(Tracker', last'.order.order_id)
                     = <<last'.order.symbol>>]_vars

\* the acknowledged order is stored and its exchange id finds nothing
C13_AckedOrderNotFound ==
    /\ last.op = "update_order"
    /\ last.order.order_id # ""
    /\ last.order.client_order_id \in DOMAIN orders_
    /\ orders_[last.order.client_order_id] = last.order
    /\ get_order(Tracker, last.order.client_order_id) = <<last.order>>
    /\ get_order_by_exchange_id(Tracker, last.order.order_id) = nullopt
    /\ get_symbol(Tracker, last.order.order_id) = nullopt

\* C14: a fill given to StrategyCoordinator::on_fill updates the risk
\* position of its symbol as RiskManager::on_fill does, and is recorded in
\* the adverse-selection filter.
C14_RoutedFillReachesRisk ==
    [][(last'.op = "coordinator_on_fill") =>
           LET fill == last'.fill
               pos == position_of(positions_, fill.symbol)
           IN  /\ positions_' =
                      Put(positions_, fill.symbol, fill_position(pos, fill))
               /\ Len(fill_history_') = Len(fill_history_) + 1]_vars

\* two fills routed through the coordinator, recorded by the filter, and no
\* position in the risk engine
C14_RoutedFillsNotInRisk ==
    /\ last.op = "coordinator_on_fill"
    /\ Len(fill_history_) = MaxRoutedFills
    /\ positions_ = EmptyMap
    /\ nfills = 0

TwoLeg(order) == order.strategy_name \in {"LATENCY_ARB", "PAIRS_TRADING"}

\* the orders of the two-leg strategies in a list, in order
RECURSIVE TwoLegOrders(_)
TwoLegOrders(orders) ==
    IF orders = <<>> THEN <<>>
    ELSE IF TwoLeg(Head(orders))
    THEN <<Head(orders)>> \o TwoLegOrders(Tail(orders))
    ELSE TwoLegOrders(Tail(orders))

\* the legs the claim lets through, from the checks made: the legs of a
\* candidate are checked one after the other, and both are returned when
\* both checks passed, none otherwise
RECURSIVE LegsThatPassed(_)
LegsThatPassed(checks) ==
    IF Len(checks) < 2 THEN <<>>
    ELSE IF ~TwoLeg(checks[1].order) THEN LegsThatPassed(Tail(checks))
    ELSE (IF checks[1].result.passed /\ checks[2].result.passed
          THEN <<checks[1].order, checks[2].order>>
          ELSE <<>>) \o LegsThatPassed(Tail(Tail(checks)))

\* C15: the latency-arbitrage and pairs orders process_market_update
\* returns are exactly the two legs of every candidate whose two checks
\* passed: a candidate with a failed check contributes no leg.
C15_BothLegsOrNeither ==
    (last.op = "process_market_update") =>
        TwoLegOrders(last.orders) = LegsThatPassed(last.checks)

\* a candidate with one leg passing its check and the other failing, and a
\* second candidate returned whole
C15_OneLegFailed ==
    /\ last.op = "process_market_update"
    /\ \E i \in 1..(Len(last.checks) - 1) :
           /\ TwoLeg(last.checks[i].order)
           /\ last.checks[i].order.side = "BUY"
           /\ last.checks[i].result.passed # last.checks[i + 1].result.passed
    /\ Len(TwoLegOrders(last.orders)) = 2

\* the reference accounting of a fill that does not flip the sign, fees aside
ReferenceAccounting(pos, after, fill, daily_before, daily_after) ==
    LET s == signed_quantity(fill)
        sign == IF pos.quantity > 0 THEN 1 ELSE -1
        closed == Min(Abs(s), Abs(pos.quantity))
        gain == RSub(RMul(RInt(closed * sign),
                          RSub(RInt(fill.price), pos.avg_price)),
                     RInt(fill.fee))
    IN  IF is_flat(pos) THEN
            /\ after.quantity = s
            /\ after.avg_price = RInt(fill.price)
        ELSE IF pos.quantity * s > 0 THEN
            /\ after.quantity = pos.quantity + s
            /\ after.avg_price =
                   RDiv(RAdd(RMul(RInt(pos.quantity), pos.avg_price),
                             RInt(s * fill.price)),
                        RInt(pos.quantity + s))
            /\ after.realized_pnl = pos.realized_pnl
            /\ daily_after = daily_before
        ELSE
            /\ after.quantity = pos.quantity + s
            /\ after.avg_price = pos.avg_price
            /\ after.realized_pnl = RAdd(pos.realized_pnl, gain)
            /\ daily_after = RAdd(daily_before, gain)

\* C16: a fill that does not flip the sign of the position is accounted as
\* in the reference (open on flat, weighted average on adding, realized and
\* daily realized P&L on reducing), and in all three cases the total fees
\* of the position grow by the fee of the fill.
C16_NonFlippingFillAccounting ==
    [][FillStep =>
        LET fill == last'.fill
            pos == position_of(positions_, fill.symbol)
            after == positions_'[fill.symbol]
        IN  ~flips(pos, fill) =>
              /\ ReferenceAccounting(pos, after, fill, daily_realized_pnl_,
                                     daily_realized_pnl_')
              /\ after.total_fees_paid = pos.total_fees_paid + fill.fee]_vars

\* three fills on one symbol, the second closing the position the first
\* opened, and the reopened position carries the fee of the last fill alone
C16_FeesRestarted ==
    /\ last.op = "on_fill"
    /\ nfills = 3
    /\ DOMAIN positions_ = {last.fill.symbol}
    /\ ~is_flat(positions_[last.fill.symbol])
    /\ Abs(positions_[last.fill.symbol].quantity) = Abs(last.fill.quantity)
    /\ positions_[last.fill.symbol].realized_pnl # RZero
    /\ positions_[last.fill.symbol].total_fees_paid = last.fill.fee

\* C17: on_fill rejects a fill with a negative price or a negative
\* quantity: the position of its symbol, the daily realized P&L and the
\* recent-fill history are as before the call.
C17_InvalidFillRejected ==
    [][(FillStep /\ (last'.fill.price < 0 \/ last'.fill.quantity < 0)) =>
           /\ position_of(positions_', last'.fill.symbol)
                  = position_of(positions_, last'.fill.symbol)
           /\ daily_realized_pnl_' = daily_realized_pnl_
           /\ recent_fills_' = recent_fills_]_vars

\* a BUY fill of negative quantity has been applied to a long position and
\* has lowered it, at a fee, and entered the fill history
C17_NegativeFillApplied ==
    /\ last.op = "on_fill"
    /\ last.fill.quantity < 0
    /\ last.fill.side = "BUY"
    /\ nfills = 2
    /\ recent_fills_ = 2
    /\ positions_[last.fill.symbol].quantity = 6 + last.fill.quantity
    /\ positions_[last.fill.symbol].total_fees_paid = 2

\* the least total gross exposure the open positions can have: the sum of
\* |position quantity x price| with every price at one unit, the lowest
\* price of the model
LeastGrossExposure ==
    SumOver(DOMAIN positions_,
            [s \in DOMAIN positions_ |-> Abs(positions_[s].quantity)])

\* the order's contribution to the gross exposure
Contribution(order, current_price) ==
    LET pos == position_of(positions_, order.symbol)
        new_notional ==
            Abs((pos.quantity + signed_quantity(order)) * current_price)
        current_notional == Abs(pos.quantity * current_price)
    IN  IF \/ is_long(pos) /\ order.side = "SELL"
           \/ is_short(pos) /\ order.side = "BUY"
        THEN Max(0, new_notional - current_notional)
        ELSE order.quantity * order.price

\* C18: when the first four checks pass and the gross exposure of the
\* positions as the fills have left them, plus the order's contribution,
\* exceeds the gross cap, check_order rejects for the gross exposure.
C18_GrossExposureRejected ==
    (last.op = "check_order") =>
        LET fails == CheckFails(last.order, last.current_price)
        IN  (/\ \A i \in 1..4 : ~fails[i]
             /\ LeastGrossExposure
                    + Contribution(last.order, last.current_price)
                    > limits_.max_total_gross_exposure) =>
                last.result =
                    [passed |-> FALSE,
                     reason |-> "Total gross exposure limit exceeded"]

\* an order passes every check while the positions, one fill of which came
\* after the last mark, already exceed the gross cap
C18_PassedOverGrossCap ==
    /\ last.op = "check_order"
    /\ last.result.passed
    /\ LeastGrossExposure > limits_.max_total_gross_exposure
    /\ calculate_total_gross_exposure(positions_) > 0

\* C19: what a check_order call running next to on_fill calls has read of
\* the positions and of the daily realized P&L is the state before or
\* after whole fills, never the state within one.
C19_CheckSeesWholeFills ==
    (last.op = "check_order_return") =>
        [positions |-> last.positions, daily |-> last.daily] \in committed

\* a check has returned between two fills, after a fill that closed the
\* position: it has read the flat position and the daily P&L of the close
C19_CheckedBetweenFills ==
    /\ last.op = "check_order_return"
    /\ nfills = 2
    /\ last.daily # RZero
    /\ is_flat(last.positions["BTCUSDT"])
    /\ fill_thread.pc = "idle"

\* C20: the ring is a bounded queue: size_ <= capacity, head_ = (tail_ +
\* size_) mod capacity, operator[](i) is the i-th oldest surviving element,
\* front() the oldest, back() the newest, iteration runs oldest first, and
\* a push into a full ring keeps size_ at capacity and makes the element
\* that was second oldest the front.
C20_RingIsBoundedQueue ==
    /\ size_ <= Capacity
    /\ head_ = (tail_ + size_) % Capacity
    /\ size_ = Len(fifo)
    /\ \A i \in 0..(size_ - 1) : at(i) = fifo[i + 1]
    /\ iteration = fifo
    /\ size_ > 0 => front = Head(fifo) /\ back = fifo[Len(fifo)]
    /\ (last.op = "push_back" /\ last.full) =>
           size_ = Capacity /\ front = last.second

\* a full ring that has wrapped: the oldest element was overwritten and
\* the elements lie across the end of the array
C20_Wrapped ==
    /\ last.op = "push_back"
    /\ last.full
    /\ size_ = Capacity
    /\ tail_ > 0
    /\ front # back

\* what C21 says of one step, for a given reading of "the completed orders
\* whose age exceeds the retention period": cleanup_completed removes
\* exactly those and returns their number, the overflow eviction of
\* track_order removes completed orders only, none completed later than one
\* it keeps, and no step removes an order that is not complete
LeavesOnlyWhenTerminal(aged) ==
    LET left == DOMAIN orders_ \ DOMAIN orders_'
    IN  /\ \A c \in left : is_complete(orders_[c])
        /\ (last'.op = "cleanup_completed") =>
               /\ left = aged
               /\ last'.removed = Cardinality(aged)
        /\ (last'.op = "track_order") =>
               /\ left # {} => Cardinality(DOMAIN orders_) >= MAX_ORDERS
               /\ \A r \in left, c \in completed_orders(Tracker) \ left :
                      \/ c = last'.order.client_order_id
                      \/ orders_[r].completed_time
                             <= orders_[c].completed_time
        /\ (last'.op \notin {"cleanup_completed", "track_order"}) =>
               left = {}

C22_InFlightWithinCap == active_arbs_ <= arb_config.max_concurrent_arbs

\* both threads hold a valid opportunity detected with one slot left
C22_TwoDetectionsForOneSlot ==
    /\ \A t \in Threads : detections_[t]
    /\ active_arbs_ = arb_config.max_concurrent_arbs - 1

\* the books of the last detection
LastBooks == [v \in DOMAIN last.books |-> VenueBookKinds[last.books[v]]]

\* what the last detection returned is sound for books whose ages, in
\* ticks, satisfy Fresh: nothing when a venue is missing or the two
\* coincide, and a valid opportunity only between the venue with the lowest
\* ask and the venue with the highest bid, with the net profit of its
\* parts, the slippage within its limit, both ages fresh and the net profit
\* at or above the threshold
SoundDetection(Fresh(_)) ==
    last.op = "detect_global_best_opportunity" =>
        LET books == LastBooks
            buy == best_buy_venue(books, last.order)
            sell == best_sell_venue(books, last.order)
            threshold ==
                IF last.quiet \div (1000 * TICKS_PER_MS) > 60
                THEN Rat(15 * 7, 10) ELSE RInt(15)
        IN  /\ (buy = UNKNOWN \/ sell = UNKNOWN \/ buy = sell)
                    => last.opp = <<>>
            /\ (last.opp # <<>> /\ last.opp[1].is_valid) =>
                LET opp == last.opp[1]
                IN  /\ opp.buy_venue # opp.sell_venue
                    /\ {opp.buy_venue, opp.sell_venue} \subseteq DOMAIN books
                    /\ opp.buy_price = get_best_ask(books[opp.buy_venue])
                    /\ opp.sell_price = get_best_bid(books[opp.sell_venue])
                    /\ \A v \in DOMAIN books :
                           /\ get_best_ask(books[v]) > 0
                                => opp.buy_price <= get_best_ask(books[v])
                           /\ opp.sell_price >= get_best_bid(books[v])
                    /\ opp.net_profit_bps =
                           RSub(RSub(opp.gross_profit_bps, opp.fees_bps),
                                opp.slippage_bps)
                    /\ RLe(opp.slippage_bps, RInt(8))
                    /\ \A v \in {opp.buy_venue, opp.sell_venue} :
                           last.ages[v] >= 0 => Fresh(last.ages[v])
                    /\ RLe(threshold, opp.net_profit_bps)

LastSlippage ==
    LET books == LastBooks
        buy == best_buy_venue(books, last.order)
        sell == best_sell_venue(books, last.order)
        target_qty == Rat(2000, get_best_ask(books[buy]))
    IN  RMul(RAdd(estimate_slippage(books[buy], target_qty, "BUY"),
                  estimate_slippage(books[sell], target_qty, "SELL")),
             RInt(10000))

\* a detection that has selected two venues with the slippage within its
\* limit and a timestamp whose age, in ticks, is over oldest_fresh returns
\* an invalid opportunity with the reason "Orderbook too stale" and fires
\* nothing
StaleRejected(oldest_fresh) ==
    LET buy == best_buy_venue(LastBooks, last.order)
        sell == best_sell_venue(LastBooks, last.order)
    IN  (/\ last.op = "detect_global_best_opportunity"
         /\ last.active_arbs < 3
         /\ buy # UNKNOWN /\ sell # UNKNOWN /\ buy # sell
         /\ RLe(LastSlippage, RInt(8))
         /\ \E v \in {buy, sell} : last.ages[v] > oldest_fresh)
        => /\ last.opp # <<>>
           /\ ~last.opp[1].is_valid
           /\ last.opp[1].reject_reason = "Orderbook too stale"
           /\ opportunities_last_minute_ = last.fired_before
           /\ last_opportunity_time_ = arb_clock - last.quiet
           /\ ~detections_[last.thread]

\* C24 as stated: when the last update of either selected venue is older
\* than max_orderbook_staleness_ms and the slippage is within its limit,
\* the opportunity returned is invalid with the reason "Orderbook too
\* stale", whatever the net profit, and is not counted as fired.
C24_OlderThanLimitRejected ==
    StaleRejected(50 * TICKS_PER_MS)

\* C24: when the age in whole milliseconds, fractions dropped, of the last
\* update of either selected venue exceeds max_orderbook_staleness_ms and
\* the slippage is within its limit, the opportunity returned is invalid
\* with the reason "Orderbook too stale", whatever the net profit, and is
\* not counted as fired.
C24_OlderInWholeMillisecondsRejected ==
    StaleRejected(50 * TICKS_PER_MS + TICKS_PER_MS - 1)

\* a stale rejection of an opportunity whose net profit is over the
\* threshold
C24_ProfitableButStale ==
    /\ last.op = "detect_global_best_opportunity"
    /\ last.opp # <<>>
    /\ last.opp[1].reject_reason = "Orderbook too stale"
    /\ RLe(RInt(15), last.opp[1].net_profit_bps)
    /\ opportunities_last_minute_ = 0

\* C25: every record_fill and every update_current_price that finalizes an
\* outcome invalidates the cache, whatever calculate_toxicity is doing
\* meanwhile: the cache is valid only while the fills and the last toxic
\* fill time are those it was computed from; and a calculate_toxicity call
\* with no fill recorded and no outcome finalized since the call before it
\* returned gives the same score.
C25_CacheInvalidated ==
    /\ last.op = "record_fill" => needs_recalc_
    /\ ~needs_recalc_
            => computed_from_ = <<fill_history_, last_toxic_fill_time_>>
    /\ (last.op = "calculate_toxicity" /\ last.previous # <<>> /\ ~last.dirty)
            => last.metrics.toxicity_score = last.previous[1]

\* with two fills recorded, a call has returned the score of the call
\* before it although a fresh computation would now give another
C25_SameScoreLater ==
    /\ last.op = "calculate_toxicity"
    /\ last.previous # <<>>
    /\ ~last.dirty
    /\ last.metrics.toxicity_score = last.previous[1]
    /\ recalculate.toxicity_score # last.metrics.toxicity_score
    /\ Len(fill_history_) = MaxFilterFills

\* C26: every result of calculate_toxicity, computed or served from the
\* cache, has the level and the multiplier of its score: LOW and 1.0 under
\* 0.3, MEDIUM and 1.5 from 0.3 to under 0.6, HIGH and 2.5 from 0.6.
C26_LevelMatchesScore ==
    last.op = "calculate_toxicity" =>
        LET m == last.metrics
        IN  <<m.toxicity_level, m.recommended_spread_mult>> =
                CASE RLt(m.toxicity_score, Rat(3, 10)) -> <<"LOW", RInt(1)>>
                  [] RLt(m.toxicity_score, Rat(6, 10))
                        -> <<"MEDIUM", Rat(3, 2)>>
                  [] OTHER -> <<"HIGH", Rat(5, 2)>>

\* a result served from the cache with a score of 0.6 or more
C26_CachedHighScore ==
    /\ last.op = "calculate_toxicity"
    /\ last.cached
    /\ RLe(Rat(6, 10), last.metrics.toxicity_score)

\* the sum of the first n elements of a sequence of quantities
RECURSIVE SumFirst(_, _)
SumFirst(qtys, n) ==
    IF n = 0 \/ qtys = <<>> THEN 0
    ELSE Head(qtys) + SumFirst(Tail(qtys), n - 1)

\* C27: analyze returns a valid signal if and only if v_b + v_a >=
\* min_volume_threshold and |I| >= imbalance_threshold, with v_b and v_a the
\* quantities of the top 5 levels and I = (v_b - v_a) / (v_b + v_a); the
\* side is BUY when I > 0 and SELL otherwise.
C27_SignalIffImbalanced ==
    last.op = "analyze" =>
        LET v_b == SumFirst(last.bid_qtys, 5)
            v_a == SumFirst(last.ask_qtys, 5)
        IN  /\ last.signal.is_valid
                <=> /\ v_b + v_a >= 10
                    /\ Abs(v_b - v_a) * 100 >= 35 * (v_b + v_a)
            /\ last.signal.is_valid
                => last.signal.predicted_direction
                       = IF v_b > v_a THEN "BUY" ELSE "SELL"

\* a book whose imbalance is the threshold itself: 27 against 13
C27_ImbalanceAtThreshold ==
    /\ last.op = "analyze"
    /\ last.signal.imbalance_ratio = Rat(35, 100)
    /\ ~last.signal.is_valid

\* the sum of a sequence of rationals
RECURSIVE RSum(_)
RSum(seq) == IF seq = <<>> THEN RZero ELSE RAdd(Head(seq), RSum(Tail(seq)))

\* C28: after any sequence of update_prices calls the accumulator's count
\* is the size of the ring, which holds min(n, L) ratios, the newest last,
\* and the incremental mean is the mean of the ratios in the ring.
C28_IncrementalMeanIsBatchMean ==
    /\ stats_calculator_.count_ = Len(ratio_history_)
    /\ Len(ratio_history_) = Min(npair_updates, lookback_period_)
    /\ last.op = "update_prices"
            => ratio_history_[Len(ratio_history_)]
                    = Rat(last.price1, last.price2)
    /\ ratio_history_ # <<>>
            => stats_calculator_.mean_
                    = RDiv(RSum(ratio_history_), RInt(Len(ratio_history_)))

\* the ring of three has wrapped twice and holds three different ratios
C28_WrappedTwice ==
    /\ lookback_period_ = ShortLookback
    /\ npair_updates = ShortLookback + 2
    /\ Cardinality({ratio_history_[i] : i \in 1..Len(ratio_history_)}) = 3

\* C29: with enough history and a standard deviation over epsilon,
\* generate_signal gives a valid signal if and only if |z| >= entry_z for
\* z = (p1 / p2 - mean) / stddev, SELL symbol1 and BUY symbol2 at or above
\* +entry_z, BUY symbol1 and SELL symbol2 at or below -entry_z, with the
\* target price of symbol1 at mean x p2.
C29_SignalIffBeyondEntry ==
    (/\ last.op = "generate_signal"
     /\ Len(ratio_history_) >= lookback_period_ \div 2
     /\ RLt(Rat(1, 1000000), std_ratio_))
    => LET z == RDiv(RSub(Rat(last.current_price1, last.current_price2),
                          mean_ratio_),
                     std_ratio_)
           signal == last.signal
       IN  /\ signal.is_valid <=> RLe(RInt(2), RAbs(z))
           /\ signal.is_valid =>
                /\ <<signal.symbol1_side, signal.symbol2_side>> =
                        IF RLe(RInt(2), z) THEN <<"SELL", "BUY">>
                        ELSE <<"BUY", "SELL">>
                /\ signal.target_price1 =
                        RMul(mean_ratio_, RInt(last.current_price2))

\* a ratio exactly entry_z standard deviations over the mean: no signal
C29_AtEntryThreshold ==
    /\ last.op = "generate_signal"
    /\ last.signal.z_score = RInt(2)
    /\ ~last.signal.is_valid

\* C30: however many register_symbol calls are made, the wrap of the id
\* counter included, registering a registered string returns the id it
\* already has, register_symbol never returns the reserved id 0, no two
\* strings have the same id, and get_symbol(get_id(s)) is s for every
\* registered string s.
C30_IdsStableValidAndDistinct ==
    /\ (last.op = "register_symbol" /\ last.registered) => (last.id = last.before)
    /\ last.op = "register_symbol" => last.id # INVALID_SYMBOL
    /\ Cardinality({symbol_to_id_[s] : s \in DOMAIN symbol_to_id_}) = Len(symbol_to_id_)
    /\ \A s \in DOMAIN symbol_to_id_ : get_symbol_of(get_id(s)) = s

\* the string that takes the counter round has just been registered and was
\* given id 0
C30_WrappedToInvalidId ==
    /\ last.op = "register_symbol"
    /\ ~last.registered
    /\ last.symbol = 2 ^ SYMBOL_ID_BITS
    /\ last.id = INVALID_SYMBOL
    /\ get_id(last.symbol) = INVALID_SYMBOL

\* the recorded times that are at most `limit` ticks before time t
Within(t, limit) == SelectSeq(recorded, LAMBDA r : t - r <= limit)

\* the recorded times whose age at time t, in whole seconds, is at most the
\* window
WithinWholeSeconds(t) ==
    SelectSeq(recorded, LAMBDA r : seconds(t - r) <= error_config.window)

\* C31: after any sequence of record_error calls the tracker holds, in time
\* order, exactly the errors recorded no more than `window` before the most
\* recent record_error, and threshold_exceeded() is true if and only if the
\* held count is at least the threshold.
C31_HoldsExactlyTheWindow ==
    /\ recorded # <<>> =>
            error_times_ = Within(recorded[Len(recorded)],
                                  error_config.window * TICKS_PER_SECOND)
    /\ last.op = "threshold_exceeded" =>
            (last.result <=> Len(error_times_) >= error_config.threshold)

\* C31, amended: the same with the age of an error taken in whole seconds,
\* as the duration_cast of record_error takes it.
C31_HoldsTheWindowInWholeSeconds ==
    /\ recorded # <<>> =>
            error_times_ = WithinWholeSeconds(recorded[Len(recorded)])
    /\ last.op = "threshold_exceeded" =>
            (last.result <=> Len(error_times_) >= error_config.threshold)

\* an error was evicted by a later record_error and a younger one was kept
C31_EvictedAndKept ==
    /\ last.op = "record_error"
    /\ Len(error_times_) >= 2
    /\ Len(error_times_) < Len(recorded)

\* C38: threshold_exceeded() returns true only when at least `threshold`
\* errors were recorded within the window that ends at the time of the
\* query.
C38_ExceededOnlyWithinTrailingWindow ==
    (last.op = "threshold_exceeded" /\ last.result) =>
        Len(Within(last.now, error_config.window * TICKS_PER_SECOND))
            >= error_config.threshold

\* threshold_exceeded() is true although every error is two or more windows
\* old
C38_ExceededLongAfter ==
    /\ last.op = "threshold_exceeded"
    /\ last.result
    /\ \A i \in DOMAIN recorded :
            last.now - recorded[i] >= 2 * error_config.window * TICKS_PER_SECOND

\* C32: under any interleaving of threads calling allow_request,
\* record_failure, record_success and open, an allow_request that begins
\* after state_ has changed to OPEN and returns before the timeout has
\* elapsed since that change returns false.
C32_NoRequestThroughWhileOpen ==
    (/\ last.op = "allow_request"
     /\ last.epoch > 0
     /\ last.epoch = open_epoch
     /\ last.at - opened_at < config_.timeout) => ~last.result

\* an allow_request that began after the breaker opened returns true at the
\* very time of the opening, while open() has not stored the failure time yet
C32_ThroughBeforeTimeStored ==
    /\ last.op = "allow_request"
    /\ last.result
    /\ last.epoch = 1
    /\ open_epoch = 1
    /\ last.at = opened_at
    /\ \E t \in Threads : breaker_calls[t].pc = "open_time"

\* C33: while the breaker is CLOSED, each record_success lowers the failure
\* count by exactly one, and not below 0, and each record_failure raises it
\* by exactly one, whatever the other thread does; and with no call in
\* progress the breaker is never CLOSED with the failure count at or over
\* failure_threshold.
C33_CountsExactlyOne ==
    /\ (last.op = "record_success" /\ "before" \in DOMAIN last
            /\ last.state = "CLOSED") =>
            last.after = (IF last.before > 0 THEN last.before - 1 ELSE 0)
    /\ (last.op = "record_failure" /\ "before" \in DOMAIN last
            /\ last.state = "CLOSED") =>
            last.after = last.before + 1
    /\ (state_ = "CLOSED"
            /\ \A t \in Threads : breaker_calls[t].pc = "idle") =>
            failure_count_ < config_.failure_threshold

\* a record_success in CLOSED has stored a count that wipes out the failure
\* another thread recorded after the count was loaded: two failures and one
\* success so far, and the count is 0
C33_FailureLost ==
    /\ last.op = "record_success"
    /\ "before" \in DOMAIN last
    /\ last.state = "CLOSED"
    /\ open_epoch = 0
    /\ last.before = 2
    /\ last.after = 0
    /\ failure_count_ = 0

\* C34: after any sequence of track_order, update_order and
\* cleanup_completed, every exchange-id index entry points to an order in the
\* map whose exchange id is the entry's key, and get_orders_for_symbol(s)
\* returns the tracked orders whose symbol is s and no others, each once.
C34_IndicesConsistent ==
    /\ \A x \in DOMAIN order_id_to_client_id_ :
            /\ order_id_to_client_id_[x] \in DOMAIN orders_
            /\ orders_[order_id_to_client_id_[x]].order_id = x
    /\ \A s \in Symbols :
            LET result == get_orders_for_symbol(Tracker, s)
                tracked == {orders_[c] : c \in {d \in DOMAIN orders_ : orders_[d].symbol = s}}
            IN  /\ {result[i] : i \in DOMAIN result} = tracked
                /\ Len(result) = Cardinality(tracked)

\* one client id tracked twice with one symbol: get_orders_for_symbol returns
\* the one order twice
C34_ReturnedTwice ==
    /\ last.op = "track_order"
    /\ Cardinality(DOMAIN orders_) = 1
    /\ Len(get_orders_for_symbol(Tracker, last.order.symbol)) = 2

\* C35: no OrderTracker operation asks for the tracker's lock while its
\* thread already holds it, and no lookup is left waiting for a lock behind
\* a writer that waits for the lookup's own lock.
C35_NoLockWhileHolding ==
    /\ reader_thread.pc \in {"lock", "inner_lock"} =>
            tracker_mutex_.readers = 0
    /\ reader_thread.pc # "blocked"

\* get_order_by_exchange_id holds its shared lock, the get_order it called
\* waits behind track_order, and track_order waits for the shared lock to go
C35_SelfDeadlock ==
    /\ reader_thread.pc = "blocked"
    /\ reader_thread.op = "get_order_by_exchange_id"
    /\ tracker_mutex_.readers = 1
    /\ writer_thread.pc = "lock"
    /\ ~ENABLED NextTrackerLock

\* C36: with no open position and zero P&L, check_order approves an order
\* on one symbol whose notional is within max_order_size, the per-symbol cap
\* and the gross cap, the concentration cap being below 100%.
C36_FlatBookOrderApproved ==
    (/\ last.op = "check_order"
     /\ \A s \in DOMAIN positions_ : is_flat(positions_[s])
     /\ get_total_pnl_internal(positions_, daily_realized_pnl_) = RZero
     /\ peak_daily_pnl_ = RZero
     /\ RLt(limits_.max_single_symbol_pct, RInt(1))
     /\ last.order.quantity * last.order.price <= limits_.max_order_size
     /\ last.order.quantity * last.current_price
            <= limits_.max_position_per_symbol
     /\ last.order.quantity * last.order.price
            <= limits_.max_total_gross_exposure)
        => last.result.passed

\* the first order of the day, on an empty book and well within the caps, is
\* rejected for concentration
C36_FirstOrderRejected ==
    /\ last.op = "check_order"
    /\ positions_ = EmptyMap
    /\ daily_realized_pnl_ = RZero
    /\ last.order.quantity * last.order.price <= limits_.max_order_size
    /\ last.current_price = last.order.price
    /\ last.result = Rejected("Concentration limit exceeded")

\* the LATENCY_ARB orders among the orders a call returned
ArbOrders(orders) ==
    SelectSeq(orders, LAMBDA o : o.strategy_name = "LATENCY_ARB")

\* C37: a process_market_update call that builds the two arbitrage legs and
\* drops them because a leg fails its risk check leaves the count of active
\* arbitrages as it was.
C37_DroppedArbNotCounted ==
    (/\ last.op = "process_market_update"
     /\ last.arbs_created = 1
     /\ ArbOrders(last.orders) = <<>>) => active_arbs_ = last.arbs_before

\* no fill has ever arrived and no arbitrage order was ever returned, three
\* candidates were dropped by the risk check, and the fourth update, with an
\* opportunity in the books, is not even checked: detect_opportunity has
\* stopped returning opportunities
C37_DetectionStopped ==
    /\ last.op = "process_market_update"
    /\ positions_ = EmptyMap
    /\ nupdates = 4
    /\ last.arbs_before = latency_arb_config.max_concurrent_arbs
    /\ last.books.is_valid
    /\ last.arbs_created = 0
    /\ last.checks = <<>>
    /\ ~detect_opportunity(last.books).is_valid

\* the objects held by some thread
HandedOut == UNION {handed_out[t] : t \in Threads}

\* C39: whatever the order of the allocate and deallocate calls of the two
\* threads, each object being returned at most once: in_use is the number of
\* objects handed out and in_use + available = total_allocated;
\* total_allocated is a multiple of BlockSize and no call lowers it; and
\* allocate never returns an object that a thread still holds.
C39_PoolAccounting ==
    /\ in_use(Pool) = Cardinality(HandedOut)
    /\ in_use(Pool) + available(Pool) = total_allocated(Pool)
    /\ total_allocated(Pool) % BlockSize = 0
    /\ total_allocated(Pool) = BlockSize * Len(blocks_)
    /\ last.op \in {"allocate", "deallocate"} =>
            total_allocated(Pool) >= last.total_before
    /\ (last.op = "allocate" /\ ~last.thrown) =>
            last.obj \notin last.held_before
    /\ \A t, u \in Threads : t # u => handed_out[t] \cap handed_out[u] = {}

\* the pool has grown by a second block, which happens only once every
\* object of the first was handed out; object 1 of the first block, returned
\* since, has been handed out again, and both threads hold objects
C39_GrownAndReused ==
    /\ last.op = "allocate"
    /\ ~last.thrown
    /\ Len(blocks_) = 2
    /\ last.total_before = 2 * BlockSize
    /\ \A t \in Threads : handed_out[t] # {}
    /\ last.obj = 1
    /\ last.thread = "t2"

\* C40: once update_prices has been called twenty times or more, each leg's
\* price history holds at least twenty samples, and calculate_correlation
\* does not return 0.0 for want of samples.
C40_CorrelationOverRetainedSamples ==
    npair_updates >= 20 =>
        /\ Len(price1_history_) >= 20
        /\ Len(price2_history_) >= 20
        /\ last.op = "calculate_correlation" =>
                ~last.correlation.insufficient

\* after twenty updates the ratio history is full and the price histories
\* are empty, and calculate_correlation has returned 0.0 for want of samples
C40_NoSamplesAfterTwenty ==
    /\ npair_updates = 20
    /\ Len(ratio_history_) = 20
    /\ last.op = "calculate_correlation"
    /\ last.samples1 = 0
    /\ last.samples2 = 0
    /\ last.correlation.insufficient

====
